---- MODULE Spec2Model ----
(***************************************************************************)
(* A model of the MTK communication stack of penumbra: the preloader       *)
(* handshake and commands, the XFlash (DA v5) framed protocol, DA1         *)
(* bring-up, DA2 boot and the flash read / write loops.                    *)
(*                                                                         *)
(* The host code is sequential.  Its position is `pc` (a label inside the  *)
(* running function), `stack` holds the labels its callers resume at,      *)
(* `loc` the local variables and `rv` the value the last function          *)
(* returned.  `io` is the history of the port: one event per write_all     *)
(* call and one per read_exact / read_bulk call, in program order.         *)
(*                                                                         *)
(* The device is the environment.  Every read draws what the device        *)
(* delivers from a small set: the bytes asked for, or a failure of the     *)
(* read (a timeout or another transport error).  write_all, flush and      *)
(* set_timeout are taken to succeed.                                       *)
(***************************************************************************)
EXTENDS Integers, Sequences, FiniteSets, TLC

VARIABLES
    op,     \* the operation the caller invoked, with its arguments
    pc,     \* label of the statement the host executes next
    stack,  \* return labels of the callers, innermost first
    loc,    \* local variables of the running operation
    rv,     \* result of the function that returned last
    io      \* history of port events

vars == <<op, pc, stack, loc, rv, io>>

----------------------------------------------------------------------------
(* Bounds of the model.                                                    *)

\* How often a retry loop (handshake) may see a wrong answer.
MaxRetries == 2

----------------------------------------------------------------------------
(* Bytes and words.                                                        *)

\* A u32 is held as the integer with the same 32 bits in two's complement
\* (0xFEEEEEFE as -17895682, 0xFFFFFFFF as -1): the model's integers are
\* 32 bits wide.  Values below 0x80000000 are themselves.

\* u16 / u32 / u64 :: to_le_bytes, with n the width in bytes
RECURSIVE to_le_bytes(_, _)
to_le_bytes(x, n) ==
    IF n = 0 THEN <<>> ELSE <<x % 256>> \o to_le_bytes(x \div 256, n - 1)

\* to_be_bytes if it put the least significant byte first.
to_be_bytes_lsb_first(x, n) == to_le_bytes(x, n)

\* u32 :: to_be_bytes
RECURSIVE to_be_bytes(_, _)
to_be_bytes(x, n) ==
    IF n = 0 THEN <<>> ELSE to_be_bytes(x \div 256, n - 1) \o <<x % 256>>

\* The top byte of a u32 in two's complement.
TopByte(b) == IF b >= 128 THEN b - 256 ELSE b

\* u16 :: from_le_bytes, from_be_bytes
u16_from_le_bytes(b) == b[1] + 256 * b[2]
u16_from_be_bytes(b) == 256 * b[1] + b[2]

\* u32 :: from_le_bytes, from_be_bytes
u32_from_le_bytes(b) ==
    b[1] + 256 * b[2] + 65536 * b[3] + 16777216 * TopByte(b[4])
u32_from_be_bytes(b) ==
    b[4] + 256 * b[3] + 65536 * b[2] + 16777216 * TopByte(b[1])

RECURSIVE Concat(_)
Concat(ss) == IF ss = <<>> THEN <<>> ELSE Head(ss) \o Concat(Tail(ss))

----------------------------------------------------------------------------
(* The port.                                                               *)

\* Port events.
Wr(b)    == [k |-> "w", b |-> b, e |-> "none"]
Rd(b)    == [k |-> "r", b |-> b, e |-> "none"]
RdErr(e) == [k |-> "e", b |-> <<>>, e |-> e]

\* The kinds of std::io::Error a failed read carries.
ReadErrKinds == {"TimedOut", "BrokenPipe"}

\* The port during one call: `bytes` is what the device delivers to the
\* reads of the call, after which a read fails with an error of kind
\* `end`; `ev` collects the events of the call.
Rx(bytes, end) == [bytes |-> bytes, end |-> end, ev |-> <<>>]

\* Write::write_all(buf)
write_all(p, buf) == [p EXCEPT !.ev = Append(@, Wr(buf))]

\* Read::read_exact(buf) with buf.len() = n.
read_exact(p, n) ==
    IF Len(p.bytes) >= n
    THEN [ok |-> TRUE, val |-> SubSeq(p.bytes, 1, n), kind |-> "none",
          p |-> [p EXCEPT !.bytes = SubSeq(@, n + 1, Len(@)),
                          !.ev = Append(@, Rd(SubSeq(p.bytes, 1, n)))]]
    ELSE [ok |-> FALSE, val |-> <<>>, kind |-> p.end,
          p |-> [p EXCEPT !.bytes = <<>>, !.ev = Append(@, RdErr(p.end))]]

\* The result of a call on the port: Ok(v) or Err(kind), and the port after.
POk(v, p)  == [ok |-> TRUE, val |-> v, kind |-> "none", p |-> p]
PErr(k, p) == [ok |-> FALSE, val |-> 0, kind |-> k, p |-> p]

\* The call read all the device delivered.
Consumed(r) == r.p.bytes = <<>>

\* Results: Ok(v) and Err(io::Error of kind k).
Ok(v)  == [ok |-> TRUE, val |-> v, kind |-> "none"]
Err(k) == [ok |-> FALSE, val |-> 0, kind |-> k]
NoRet  == [ok |-> FALSE, val |-> 0, kind |-> "running"]
ResultOf(r) == [ok |-> r.ok, val |-> r.val, kind |-> r.kind]

\* `return v`: resume the caller, or finish the operation.
Return(v) ==
    /\ rv' = v
    /\ IF stack = <<>>
       THEN pc' = "done" /\ stack' = stack
       ELSE pc' = Head(stack) /\ stack' = Tail(stack)

\* The streams a read of n bytes may see: the n bytes of one of `vals`,
\* or a failure of the read.
RxOf(vals) ==
    {Rx(v, "TimedOut") : v \in vals} \cup {Rx(<<>>, e) : e \in ReadErrKinds}

----------------------------------------------------------------------------
(* The handshake, in its three implementations.                            *)

\* The bytes a device may answer during the handshake.
HsBytes == {95, 245, 175, 250, 0}   \* 5F F5 AF FA 00

HsRx == RxOf({<<b>> : b \in HsBytes})

\* Connection::check
check(data, expected_data) ==
    IF data = expected_data THEN Ok(TRUE) ELSE Err("Other")

\* Connection::handshake, the loop on 0xA0: the input buffer is cleared
\* after a wrong or failed read (bytes cleared are bytes never read).
Connection_handshake_loop ==
    /\ pc = "Connection::handshake"
    /\ \E rx \in HsRx :
         LET r == read_exact(write_all(rx, <<160>>), 1) IN
         /\ io' = io \o r.p.ev
         /\ IF r.ok /\ r.val[1] = 95
            THEN pc' = "Connection::handshake.0A" /\ loc' = loc
            ELSE /\ loc.n < MaxRetries
                 /\ loc' = [loc EXCEPT !.n = @ + 1]
                 /\ pc' = pc
    /\ UNCHANGED <<op, stack, rv>>

\* Connection::handshake, one of its three `write` + `check` pairs.
Connection_handshake_step(label, byte, expected, next) ==
    /\ pc = label
    /\ \E rx \in HsRx :
         LET r == read_exact(write_all(rx, <<byte>>), 1)
             c == check(r.val, <<expected>>) IN
         /\ io' = io \o r.p.ev
         /\ IF ~r.ok THEN Return(Err(r.kind))
            ELSE IF ~c.ok THEN Return(c)
            ELSE IF next = "Ok" THEN Return(Ok(TRUE))
            ELSE pc' = next /\ UNCHANGED <<stack, rv>>
    /\ UNCHANGED <<op, loc>>

Connection_handshake_0A ==
    Connection_handshake_step("Connection::handshake.0A", 10, 245,
                              "Connection::handshake.50")
Connection_handshake_50 ==
    Connection_handshake_step("Connection::handshake.50", 80, 175,
                              "Connection::handshake.05")
Connection_handshake_05 ==
    Connection_handshake_step("Connection::handshake.05", 5, 250, "Ok")

\* SerialMTKPort::handshake with no port: `self.port` is None.
SerialMTKPort_handshake_closed ==
    /\ pc = "SerialMTKPort::handshake"
    /\ ~op.port_open
    /\ Return(Err("NotConnected"))
    /\ UNCHANGED <<op, loc, io>>

\* SerialMTKPort::handshake, the loop on 0xA0.
SerialMTKPort_handshake_loop ==
    /\ pc = "SerialMTKPort::handshake"
    /\ op.port_open
    /\ \E rx \in HsRx :
         LET r == read_exact(write_all(rx, <<160>>), 1) IN
         /\ io' = io \o r.p.ev
         /\ IF r.ok /\ r.val[1] = 95
            THEN pc' = "SerialMTKPort::handshake.0A" /\ loc' = loc
            ELSE /\ loc.n < MaxRetries
                 /\ loc' = [loc EXCEPT !.n = @ + 1]
                 /\ pc' = pc
    /\ UNCHANGED <<op, stack, rv>>

\* SerialMTKPort::handshake, one of its three write / read / compare steps.
SerialMTKPort_handshake_step(label, byte, expected, next) ==
    /\ pc = label
    /\ \E rx \in HsRx :
         LET r == read_exact(write_all(rx, <<byte>>), 1) IN
         /\ io' = io \o r.p.ev
         /\ IF ~r.ok THEN Return(Err(r.kind))
            ELSE IF r.val # <<expected>> THEN Return(Err("Other"))
            ELSE IF next = "Ok" THEN Return(Ok(TRUE))
            ELSE pc' = next /\ UNCHANGED <<stack, rv>>
    /\ UNCHANGED <<op, loc>>

SerialMTKPort_handshake_0A ==
    SerialMTKPort_handshake_step("SerialMTKPort::handshake.0A", 10, 245,
                                 "SerialMTKPort::handshake.50")
SerialMTKPort_handshake_50 ==
    SerialMTKPort_handshake_step("SerialMTKPort::handshake.50", 80, 175,
                                 "SerialMTKPort::handshake.05")
SerialMTKPort_handshake_05 ==
    SerialMTKPort_handshake_step("SerialMTKPort::handshake.05", 5, 250, "Ok")

\* startcmd with 0x0A and 0x50 exchanged.
startcmd_swapped == <<160, 80, 10, 5>>

\* UsbMTKPort::handshake: `let startcmd = [0xA0u8, 0x0A, 0x50, 0x05]`.
startcmd == <<160, 10, 80, 5>>

\* `!startcmd[i] & 0xFF` on a u8.
expected_reply(b) == 255 - b

\* What one read_bulk into a 5-byte buffer may deliver after startcmd[i]
\* (i counted from 1): nothing, the expected byte, or two bytes of which
\* the last is or is not the expected one.
UsbBulkReplies(i) ==
    LET e == expected_reply(startcmd[i]) IN
    {<<>>, <<e>>, <<0, e>>, <<e, 0>>}

\* UsbMTKPort::handshake, one turn of its while loop.
UsbMTKPort_handshake_turn ==
    /\ pc = "UsbMTKPort::handshake"
    /\ loc.i < Len(startcmd)
    /\ LET byte == startcmd[loc.i + 1] IN
       \/ \* read_bulk fails: any rusb error becomes ErrorKind::Other
          /\ io' = io \o <<Wr(<<byte>>), RdErr("Other")>>
          /\ Return(Err("Other"))
          /\ loc' = loc
       \/ \E response \in UsbBulkReplies(loc.i + 1) :
            LET n == Len(response) IN
            /\ io' = io \o <<Wr(<<byte>>), Rd(response)>>
            /\ IF n = 0 THEN Return(Err("UnexpectedEof")) /\ loc' = loc
               ELSE IF response[n] = expected_reply(byte)
               THEN /\ loc' = [loc EXCEPT !.i = @ + 1]
                    /\ UNCHANGED <<pc, stack, rv>>
               ELSE /\ loc.n < MaxRetries
                    /\ loc' = [loc EXCEPT !.i = 0, !.n = @ + 1]
                    /\ UNCHANGED <<pc, stack, rv>>
    /\ UNCHANGED op

\* UsbMTKPort::handshake, leaving the loop: Ok(()).
UsbMTKPort_handshake_end ==
    /\ pc = "UsbMTKPort::handshake"
    /\ loc.i >= Len(startcmd)
    /\ Return(Ok(TRUE))
    /\ UNCHANGED <<op, loc, io>>

HandshakeImpls ==
    {"Connection::handshake", "SerialMTKPort::handshake",
     "UsbMTKPort::handshake"}

InitHandshake ==
    /\ op \in {[fn |-> f, port_open |-> o] :
                 f \in HandshakeImpls, o \in BOOLEAN}
    /\ op.fn = "SerialMTKPort::handshake" \/ op.port_open
    /\ pc = op.fn
    /\ stack = <<>>
    /\ loc = [n |-> 0, i |-> 0]
    /\ rv = NoRet
    /\ io = <<>>

NextHandshake ==
    \/ Connection_handshake_loop
    \/ Connection_handshake_0A
    \/ Connection_handshake_50
    \/ Connection_handshake_05
    \/ SerialMTKPort_handshake_closed
    \/ SerialMTKPort_handshake_loop
    \/ SerialMTKPort_handshake_0A
    \/ SerialMTKPort_handshake_50
    \/ SerialMTKPort_handshake_05
    \/ UsbMTKPort_handshake_turn
    \/ UsbMTKPort_handshake_end

SpecHandshake == InitHandshake /\ [][NextHandshake]_vars

----------------------------------------------------------------------------
(* Properties of the handshake.                                            *)

\* The bytes written so far, one per write_all call of the handshake.
HsWrites == [i \in 1..(Len(io) \div 2) |-> io[2 * i - 1].b[1]]

\* The reply the specification gives for each handshake byte.
HsAnswer(b) ==
    CASE b = 160 -> 95 [] b = 10 -> 245 [] b = 80 -> 175 [] b = 5 -> 250
      [] OTHER -> -1

\* Reads and writes alternate, starting with a write of one byte.
HsAlternates ==
    \A i \in 1..Len(io) :
        IF i % 2 = 1 THEN io[i].k = "w" /\ Len(io[i].b) = 1
        ELSE io[i].k # "w"

\* The device answered every byte written so far as the specification says.
HsDeviceComplies ==
    /\ HsAlternates
    /\ Len(io) % 2 = 0
    /\ \A i \in 1..Len(io) :
         i % 2 = 0 =>
           /\ io[i].k = "r"
           /\ io[i].b # <<>>
           /\ io[i].b[Len(io[i].b)] = HsAnswer(io[i - 1].b[1])

IsPrefix(s, t) == Len(s) <= Len(t) /\ s = SubSeq(t, 1, Len(s))

\* C1: with the port open and a device answering 5F to A0, F5 to 0A, AF to
\* 50 and FA to 05, each of the three handshakes writes A0, 0A, 50, 05 in
\* this order, a byte only after the reply to the byte before it was read,
\* and returns Ok having written exactly these four; in every run, 0A is
\* written only after a 5F was read.
C1_HandshakeOrder ==
    /\ HsAlternates
    /\ \A i \in 1..Len(io) :
         io[i] = Wr(<<10>>) =>
           \E j \in 1..(i - 1) :
              io[j].k = "r" /\ \E m \in 1..Len(io[j].b) : io[j].b[m] = 95
    /\ (op.port_open /\ HsDeviceComplies) =>
         /\ IsPrefix(HsWrites, <<160, 10, 80, 5>>)
         /\ pc = "done" => rv = Ok(TRUE) /\ HsWrites = <<160, 10, 80, 5>>

\* A handshake over raw bulk USB that ended Ok against such a device.
C1_Witness ==
    /\ op.fn = "UsbMTKPort::handshake"
    /\ pc = "done"
    /\ rv.ok
    /\ HsDeviceComplies
    /\ Len(io) = 8

----------------------------------------------------------------------------
(* The preloader commands.                                                 *)

\* enum Command (the opcodes the core uses)
Command ==
    [GetHwSwVer |-> 252, GetHwCode |-> 253, JumpDa |-> 213, SendDa |-> 215,
     GetMeId |-> 225, GetSocId |-> 231]

\* echo as it would be without the comparison of the bytes read back.
echo_unchecked(p, data, size) ==
    LET r == read_exact(write_all(p, data), size) IN
    IF ~r.ok THEN r ELSE POk(TRUE, r.p)

\* Connection::echo
echo(p, data, size) ==
    LET r == read_exact(write_all(p, data), size) IN
    IF ~r.ok THEN r
    ELSE LET c == check(r.val, data) IN
         [ok |-> c.ok, val |-> c.val, kind |-> c.kind, p |-> r.p]

\* Connection::get_hw_code
get_hw_code(p) ==
    LET e == echo(p, <<Command.GetHwCode>>, 1) IN
    IF ~e.ok THEN e ELSE
    LET hw_code == read_exact(e.p, 2) IN
    IF ~hw_code.ok THEN hw_code ELSE
    LET status == read_exact(hw_code.p, 2) IN
    IF ~status.ok THEN status ELSE
    LET status_val == u16_from_le_bytes(status.val) IN
    IF status_val # 0 THEN PErr("Other", status.p)
    ELSE POk(u16_from_le_bytes(hw_code.val), status.p)

\* Connection::get_hw_sw_ver
get_hw_sw_ver(p) ==
    LET e == echo(p, <<Command.GetHwSwVer>>, 1) IN
    IF ~e.ok THEN e ELSE
    LET hw_sub_code == read_exact(e.p, 2) IN
    IF ~hw_sub_code.ok THEN hw_sub_code ELSE
    LET hw_ver == read_exact(hw_sub_code.p, 2) IN
    IF ~hw_ver.ok THEN hw_ver ELSE
    LET sw_ver == read_exact(hw_ver.p, 2) IN
    IF ~sw_ver.ok THEN sw_ver ELSE
    LET status == read_exact(sw_ver.p, 2) IN
    IF ~status.ok THEN status ELSE
    LET status_val == u16_from_le_bytes(status.val) IN
    IF status_val # 0 THEN PErr("Other", status.p)
    ELSE POk(<<u16_from_le_bytes(hw_sub_code.val),
               u16_from_le_bytes(hw_ver.val),
               u16_from_le_bytes(sw_ver.val)>>, status.p)

\* The common body of get_soc_id and get_meid: a length-prefixed value.
get_id(p, opcode) ==
    LET e == echo(p, <<opcode>>, 1) IN
    IF ~e.ok THEN e ELSE
    LET length_bytes == read_exact(e.p, 4) IN
    IF ~length_bytes.ok THEN length_bytes ELSE
    LET length == u32_from_be_bytes(length_bytes.val)
        id == read_exact(length_bytes.p, length) IN
    IF ~id.ok THEN id ELSE
    LET status_bytes == read_exact(id.p, 2) IN
    IF ~status_bytes.ok THEN status_bytes ELSE
    LET status == u16_from_le_bytes(status_bytes.val) IN
    IF status # 0 THEN PErr("Other", status_bytes.p)
    ELSE POk(id.val, status_bytes.p)

\* Connection::get_soc_id
get_soc_id(p) == get_id(p, Command.GetSocId)

\* Connection::get_meid
get_meid(p) == get_id(p, Command.GetMeId)

\* Connection::jump_da
jump_da(p, address) ==
    LET e1 == echo(p, <<Command.JumpDa>>, 1) IN
    IF ~e1.ok THEN e1 ELSE
    LET e2 == echo(e1.p, to_le_bytes(address, 4), 4) IN
    IF ~e2.ok THEN e2 ELSE
    LET status == read_exact(e2.p, 2) IN
    IF ~status.ok THEN status ELSE
    LET status_val == u16_from_le_bytes(status.val) IN
    IF status_val # 0 THEN PErr("Other", status.p)
    ELSE POk(TRUE, status.p)

\* send_da as it would be if the first status word were not looked at.
send_da_status_ignored(p, da_data, da_len, address, sig_len) ==
    LET e1 == echo(p, <<Command.SendDa>>, 1) IN
    IF ~e1.ok THEN e1 ELSE
    LET e2 == echo(e1.p, to_be_bytes(address, 4), 4) IN
    IF ~e2.ok THEN e2 ELSE
    LET e3 == echo(e2.p, to_be_bytes(da_len, 4), 4) IN
    IF ~e3.ok THEN e3 ELSE
    LET e4 == echo(e3.p, to_be_bytes(sig_len, 4), 4) IN
    IF ~e4.ok THEN e4 ELSE
    LET status == read_exact(e4.p, 2) IN
    IF ~status.ok THEN status ELSE
    LET checksum == read_exact(write_all(status.p, da_data), 2) IN
    IF ~checksum.ok THEN checksum ELSE
    LET status2 == read_exact(checksum.p, 2) IN
    IF ~status2.ok THEN status2 ELSE
    IF u16_from_be_bytes(status2.val) # 0 THEN PErr("Other", status2.p)
    ELSE POk(TRUE, status2.p)

\* Connection::send_da
send_da(p, da_data, da_len, address, sig_len) ==
    LET e1 == echo(p, <<Command.SendDa>>, 1) IN
    IF ~e1.ok THEN e1 ELSE
    LET e2 == echo(e1.p, to_be_bytes(address, 4), 4) IN
    IF ~e2.ok THEN e2 ELSE
    LET e3 == echo(e2.p, to_be_bytes(da_len, 4), 4) IN
    IF ~e3.ok THEN e3 ELSE
    LET e4 == echo(e3.p, to_be_bytes(sig_len, 4), 4) IN
    IF ~e4.ok THEN e4 ELSE
    LET status == read_exact(e4.p, 2) IN
    IF ~status.ok THEN status ELSE
    LET status_val == u16_from_be_bytes(status.val) IN
    IF status_val # 0 THEN PErr("Other", status.p) ELSE
    LET p1 == write_all(status.p, da_data)
        checksum == read_exact(p1, 2) IN
    IF ~checksum.ok THEN checksum ELSE
    LET status2 == read_exact(checksum.p, 2) IN
    IF ~status2.ok THEN status2 ELSE
    LET status_val2 == u16_from_be_bytes(status2.val) IN
    IF status_val2 # 0 THEN PErr("Other", status2.p)
    ELSE POk(TRUE, status2.p)

(* What the device may deliver during a preloader command.                 *)

\* All concatenations of one chunk from each of the first k sets of
\* chunkSets, in order.
RECURSIVE Prod(_, _)
Prod(chunkSets, k) ==
    IF k = 0 THEN {<<>>}
    ELSE {t \o c : t \in Prod(chunkSets, k - 1), c \in chunkSets[k]}

\* The device delivers one chunk of each of the first k sets and then
\* fails the read, for every k.
Streams(chunkSets) ==
    UNION {{Rx(b, e) : b \in Prod(chunkSets, k), e \in ReadErrKinds}
           : k \in 0..Len(chunkSets)}

\* `data`, or bytes that differ from it in the last place.
Differing(data) == [data EXCEPT ![Len(data)] = (@ + 1) % 256]
EchoOf(data) == {data, Differing(data)}

\* 16-bit status words: success, and two failures.
Status16 == {<<0, 0>>, <<0, 1>>, <<29, 0>>}

\* 16-bit values (hw_code 0x0673 as `73 06`, and another).
Word16 == {<<115, 6>>, <<0, 138>>}

\* Length-prefixed identifiers: the declared length and the bytes sent.
IdLengths == {<<0, 0, 0, 0>>, <<0, 0, 0, 2>>, <<0, 0, 0, 3>>}
IdBytes   == {<<>>, <<17, 34>>}

\* The arguments of jump_da and send_da (scenario S3 and another).
DaArgs ==
    {[da_data |-> <<222, 173, 190, 239>>, da_len |-> 4,
      address |-> 2097152, sig_len |-> 0],
     [da_data |-> <<1, 2>>, da_len |-> 258,
      address |-> 1075838976, sig_len |-> 256]}

PreloaderCommands ==
    {"get_hw_code", "get_hw_sw_ver", "get_soc_id", "get_meid", "send_da",
     "jump_da"}

InitPreloader ==
    /\ op \in {[fn |-> f, args |-> a] : f \in PreloaderCommands, a \in DaArgs}
    /\ op.fn \in {"send_da", "jump_da"} \/ op.args.sig_len = 0
    /\ pc = op.fn
    /\ stack = <<>>
    /\ loc = [n |-> 0, i |-> 0]
    /\ rv = NoRet
    /\ io = <<>>

\* A command the caller runs on its own: the device delivers rx, the
\* command reads all of it, and its result is the operation's.
RunCommand(r) ==
    /\ Consumed(r)
    /\ io' = io \o r.p.ev
    /\ Return(ResultOf(r))
    /\ UNCHANGED <<op, loc>>

Do_get_hw_code ==
    /\ pc = "get_hw_code"
    /\ \E rx \in Streams(<<EchoOf(<<Command.GetHwCode>>), Word16, Status16>>) :
         RunCommand(get_hw_code(rx))

Do_get_hw_sw_ver ==
    /\ pc = "get_hw_sw_ver"
    /\ \E rx \in Streams(<<EchoOf(<<Command.GetHwSwVer>>), Word16, Word16,
                           Word16, Status16>>) :
         RunCommand(get_hw_sw_ver(rx))

Do_get_soc_id ==
    /\ pc = "get_soc_id"
    /\ \E rx \in Streams(<<EchoOf(<<Command.GetSocId>>), IdLengths, IdBytes,
                           Status16>>) :
         RunCommand(get_soc_id(rx))

Do_get_meid ==
    /\ pc = "get_meid"
    /\ \E rx \in Streams(<<EchoOf(<<Command.GetMeId>>), IdLengths, IdBytes,
                           Status16>>) :
         RunCommand(get_meid(rx))

JumpDaStreams(address) ==
    Streams(<<EchoOf(<<Command.JumpDa>>), EchoOf(to_le_bytes(address, 4)),
              Status16>>)

Do_jump_da ==
    /\ pc = "jump_da"
    /\ \E rx \in JumpDaStreams(op.args.address) :
         RunCommand(jump_da(rx, op.args.address))

SendDaStreams(a) ==
    Streams(<<EchoOf(<<Command.SendDa>>), EchoOf(to_be_bytes(a.address, 4)),
              EchoOf(to_be_bytes(a.da_len, 4)),
              EchoOf(to_be_bytes(a.sig_len, 4)), Status16,
              Word16, Status16>>)

Do_send_da ==
    /\ pc = "send_da"
    /\ \E rx \in SendDaStreams(op.args) :
         RunCommand(send_da(rx, op.args.da_data, op.args.da_len,
                            op.args.address, op.args.sig_len))

NextPreloader ==
    \/ Do_get_hw_code
    \/ Do_get_hw_sw_ver
    \/ Do_get_soc_id
    \/ Do_get_meid
    \/ Do_jump_da
    \/ Do_send_da

SpecPreloader == InitPreloader /\ [][NextPreloader]_vars

----------------------------------------------------------------------------
(* Properties of the preloader commands.                                   *)

\* The opcode the specification gives for each command.
OpcodeOf(fn) ==
    CASE fn = "get_hw_code" -> 253
      [] fn = "get_hw_sw_ver" -> 252
      [] fn = "get_soc_id" -> 231
      [] fn = "get_meid" -> 225
      [] fn = "send_da" -> 215
      [] fn = "jump_da" -> 213

\* The device answered the opcode with another byte.
OpcodeEchoDiffers ==
    /\ Len(io) >= 2
    /\ io[2].k = "r"
    /\ io[2].b # <<OpcodeOf(op.fn)>>

\* C2: every preloader command writes its opcode first, and when the byte
\* read back differs from the opcode it returns an error without any
\* further write or read.
C2_EchoLaw ==
    pc = "done" =>
       /\ io # <<>>
       /\ io[1] = Wr(<<OpcodeOf(op.fn)>>)
       /\ OpcodeEchoDiffers => ~rv.ok /\ Len(io) = 2

\* A command that was aborted on a wrong echo of its opcode.
C2_Witness ==
    /\ pc = "done"
    /\ op.fn = "get_soc_id"
    /\ OpcodeEchoDiffers
    /\ ~rv.ok

\* The places in io of the write events.
WriteIdx == SelectSeq([i \in 1..Len(io) |-> i], LAMBDA i : io[i].k = "w")

\* What send_da exchanges before the payload when everything is echoed and
\* the first status is zero.
SendDaPreamble(a) ==
    <<Wr(<<215>>), Rd(<<215>>),
      Wr(to_be_bytes(a.address, 4)), Rd(to_be_bytes(a.address, 4)),
      Wr(to_be_bytes(a.da_len, 4)), Rd(to_be_bytes(a.da_len, 4)),
      Wr(to_be_bytes(a.sig_len, 4)), Rd(to_be_bytes(a.sig_len, 4)),
      Rd(<<0, 0>>)>>

\* One of the four echoes came back different, or the first status word
\* was read and is not zero.
SendDaRefused ==
    \/ \E j \in 1..4 :
          /\ Len(io) >= 2 * j
          /\ io[2 * j].k = "r"
          /\ io[2 * j].b # io[2 * j - 1].b
    \/ /\ Len(io) >= 9
       /\ io[9].k = "r"
       /\ io[9].b # <<0, 0>>

\* C3: send_da writes the payload (its fifth write) only after the opcode
\* and address, length, sig_len were echoed in this order and a zero status
\* was read; a wrong echo or a non-zero first status ends it in an error
\* with no payload written; it returns Ok only after the payload, a 2-byte
\* checksum and a final status of zero.
C3_SendDaOrder ==
    (op.fn = "send_da" /\ pc = "done") =>
       /\ Len(WriteIdx) <= 5
       /\ Len(WriteIdx) = 5 =>
            /\ WriteIdx[5] = 10
            /\ SubSeq(io, 1, 9) = SendDaPreamble(op.args)
            /\ io[10] = Wr(op.args.da_data)
       /\ SendDaRefused => ~rv.ok /\ Len(WriteIdx) < 5
       /\ rv.ok =>
            /\ Len(io) = 12
            /\ Len(WriteIdx) = 5
            /\ io[11].k = "r" /\ Len(io[11].b) = 2
            /\ io[12] = Rd(<<0, 0>>)

\* send_da returned Ok on scenario S3 with a non-zero checksum.
C3_Witness ==
    /\ op.fn = "send_da"
    /\ pc = "done"
    /\ rv.ok
    /\ op.args.address = 2097152
    /\ io[10] = Wr(<<222, 173, 190, 239>>)
    /\ io[11].b # <<0, 0>>

----------------------------------------------------------------------------
(* The XFlash framed protocol.                                             *)

\* enum Cmd and enum DataType of da/xflash/cmds.rs: Magic 0xFEEEEEFE,
\* SyncSignal 0x434E5953 and ProtocolFlow 1 as the specification gives
\* them; the other commands are distinct 32-bit values.
Cmd ==
    [Magic |-> -17895682, SyncSignal |-> 1129208147,
     SetupEnvironment |-> 65792, SetupHwInitParams |-> 65793,
     WriteData |-> 65540, ReadData |-> 65541, BootTo |-> 65544,
     DeviceCtrl |-> 65545, ExtAck |-> 983040,
     SetRegisterValue |-> 131082, DeviceCtrlReadRegister |-> 131086,
     ExtReadRegister |-> 983042, ExtWriteRegister |-> 983044]
DataType == [ProtocolFlow |-> 1]

\* The 12-byte header: MAGIC | DataType | Data Length, little-endian.
FrameHdr(datatype, len) ==
    to_le_bytes(Cmd.Magic, 4) \o to_le_bytes(datatype, 4)
        \o to_le_bytes(len, 4)

Min(a, b) == IF a <= b THEN a ELSE b

\* `while pos < data.len() { write_all(&data[pos..min(pos + n, len)]) }`:
\* one write for each n bytes of data, the last one of what is left.
write_chunks(p, data, n) ==
    [p EXCEPT !.ev = @ \o
        [i \in 1..((Len(data) + n - 1) \div n) |->
            Wr(SubSeq(data, (i - 1) * n + 1, Min(i * n, Len(data))))]]

\* XFlash::send
send(p, data, datatype) ==
    LET data_bytes == to_le_bytes(data, 4)
        hdr == FrameHdr(datatype, 4) IN
    POk(TRUE, write_all(write_all(p, hdr), data_bytes))

\* XFlash::send_cmd
send_cmd(p, cmd) == send(p, cmd, DataType.ProtocolFlow)

\* get_status if it took the first byte of every payload for the status.
status_of_first_byte(len, data) == IF data # <<>> THEN data[1] ELSE -1

\* get_status: the status a payload of length len stands for.
status_of(len, data) ==
    IF len = 2 THEN u16_from_le_bytes(SubSeq(data, 1, 2))
    ELSE IF len = 4
    THEN IF u32_from_le_bytes(SubSeq(data, 1, 4)) = Cmd.Magic THEN 0
         ELSE u32_from_le_bytes(SubSeq(data, 1, 4))
    ELSE IF Len(data) >= 4 THEN u32_from_le_bytes(SubSeq(data, 1, 4))
    ELSE IF data # <<>> THEN data[1]
    ELSE -1   \* 0xFFFFFFFF

\* get_status, after the read of the payload.
get_status_data(len, data) ==
    IF ~data.ok THEN data ELSE POk(status_of(len, data.val), data.p)

\* get_status, after the read of the header.
get_status_hdr(hdr) ==
    IF ~hdr.ok THEN hdr
    ELSE IF u32_from_le_bytes(SubSeq(hdr.val, 1, 4)) # Cmd.Magic
    THEN PErr("Other", hdr.p)
    ELSE get_status_data(u32_from_le_bytes(SubSeq(hdr.val, 9, 12)),
                         read_exact(hdr.p,
                                    u32_from_le_bytes(SubSeq(hdr.val, 9, 12))))

\* XFlash::get_status
get_status(p) == get_status_hdr(read_exact(p, 12))

\* read_data if it took the payload whatever the magic.
read_data_any_magic(p) ==
    LET hdr == read_exact(p, 12) IN
    IF ~hdr.ok THEN hdr
    ELSE read_exact(hdr.p, u32_from_le_bytes(SubSeq(hdr.val, 9, 12)))

\* XFlash::read_data
read_data(p) ==
    LET hdr == read_exact(p, 12) IN
    IF ~hdr.ok THEN hdr ELSE
    LET magic == u32_from_le_bytes(SubSeq(hdr.val, 1, 4))
        len == u32_from_le_bytes(SubSeq(hdr.val, 9, 12)) IN
    IF magic # Cmd.Magic THEN PErr("Other", hdr.p)
    ELSE read_exact(hdr.p, len)

\* send_data if it did not read the status after the data.
send_data_unacknowledged(p, data) ==
    POk(TRUE, write_chunks(write_all(p, FrameHdr(DataType.ProtocolFlow,
                                                 Len(data))),
                           data, 64))

\* XFlash::send_data
send_data(p, data) ==
    LET hdr == FrameHdr(DataType.ProtocolFlow, Len(data))
        p1 == write_chunks(write_all(p, hdr), data, 64)
        status == get_status(p1) IN
    IF ~status.ok THEN status
    ELSE IF status.val # 0 THEN PErr("Other", status.p)
    ELSE POk(TRUE, status.p)

(* What the device may deliver to get_status and read_data.                *)

\* A frame as the device sends it.
Frame(payload) == FrameHdr(DataType.ProtocolFlow, Len(payload)) \o payload

\* A header that does not start with the magic.
BadMagicHdr == <<0, 0, 0, 0>> \o to_le_bytes(1, 4) \o to_le_bytes(4, 4)

\* The device sends one of `payloads` in a frame, or a header with a wrong
\* magic, or stops before or after the header.
FrameRx(payloads) ==
    {Rx(Frame(d), "TimedOut") : d \in payloads}
        \cup {Rx(BadMagicHdr, "TimedOut")}
        \cup {Rx(<<>>, e) : e \in ReadErrKinds}
        \cup {Rx(FrameHdr(DataType.ProtocolFlow, 4), "TimedOut")}

\* Status payloads: zero as u32, a failure code, SYNC, the magic (which
\* get_status reads as zero), and zero as u16.
StatusPayloads ==
    {to_le_bytes(0, 4), to_le_bytes(49153, 4),
     to_le_bytes(Cmd.SyncSignal, 4), to_le_bytes(Cmd.Magic, 4), <<0, 0>>}

StatusRx == FrameRx(StatusPayloads)

----------------------------------------------------------------------------
(* DA bring-up: upload_stage1, boot_to, boot_extensions, upload_da.        *)

\* A step of an operation that ends in `?`: the device delivers a stream,
\* the step reads all of it, and an error returns to the caller.
Try(r, next) ==
    /\ Consumed(r)
    /\ io' = io \o r.p.ev
    /\ IF r.ok THEN pc' = next /\ UNCHANGED <<stack, rv>>
       ELSE Return(Err(r.kind))

\* A call: run `callee`, then resume at `ret` with its result in rv.
Call(callee, ret) ==
    /\ pc' = callee
    /\ stack' = <<ret>> \o stack
    /\ rv' = NoRet

\* A step result together with the values get_status returned in it.
WithStatus(r, st) ==
    [ok |-> r.ok, val |-> r.val, kind |-> r.kind, p |-> r.p, status |-> st]

\* upload_stage1 if it took any byte for the sync byte.
upload_stage1_sync_byte_any(p) ==
    LET r == read_exact(p, 1) IN
    IF ~r.ok THEN PErr(r.kind, r.p) ELSE POk(r.val[1], r.p)

\* upload_stage1: the sync byte.
upload_stage1_sync_byte(p) ==
    LET r == read_exact(p, 1) IN
    IF ~r.ok
    THEN IF r.kind = "TimedOut" THEN PErr("TimedOut", r.p)
         ELSE PErr(r.kind, r.p)
    ELSE IF r.val[1] # 192 THEN PErr("Other", r.p)
    ELSE POk(r.val[1], r.p)

\* da_log_level 2, log_channel 1, system_os 1, ufs_provision 0, and 0.
env_param ==
    to_le_bytes(2, 4) \o to_le_bytes(1, 4) \o to_le_bytes(1, 4)
        \o to_le_bytes(0, 4) \o to_le_bytes(0, 4)

hw_param == <<0, 0, 0, 0>>

\* upload_stage1: SyncSignal, SetupEnvironment and its parameters.
upload_stage1_setup_env(p) ==
    LET c1 == send_cmd(p, Cmd.SyncSignal)
        c2 == send_cmd(c1.p, Cmd.SetupEnvironment) IN
    send_data(c2.p, env_param)

\* upload_stage1: SetupHwInitParams and its parameters.
upload_stage1_setup_hw(p) ==
    LET c == send_cmd(p, Cmd.SetupHwInitParams) IN send_data(c.p, hw_param)

\* upload_stage1: the sync frame DA1 sends after the setup.
upload_stage1_sync_frame(p) ==
    LET hdr == read_exact(p, 12) IN
    IF ~hdr.ok THEN PErr("Other", hdr.p) ELSE
    LET magic == u32_from_le_bytes(SubSeq(hdr.val, 1, 4))
        dtype == u32_from_le_bytes(SubSeq(hdr.val, 5, 8))
        len == u32_from_le_bytes(SubSeq(hdr.val, 9, 12)) IN
    IF magic # Cmd.Magic \/ dtype # DataType.ProtocolFlow \/ len # 4
    THEN PErr("Other", hdr.p) ELSE
    LET buf == read_exact(hdr.p, 4) IN
    IF ~buf.ok THEN PErr("Other", buf.p)
    ELSE IF u32_from_le_bytes(buf.val) # Cmd.SyncSignal
    THEN PErr("Other", buf.p)
    ELSE POk(TRUE, buf.p)

\* boot_to: the BootTo command and its status.
boot_to_cmd(p) ==
    LET c == send_cmd(p, Cmd.BootTo)
        status == get_status(c.p) IN
    IF ~status.ok THEN WithStatus(status, <<>>)
    ELSE IF status.val # 0
    THEN WithStatus(PErr("Other", status.p), <<status.val>>)
    ELSE WithStatus(POk(TRUE, status.p), <<status.val>>)

\* boot_to: the parameter frame, the image and the first status.
boot_to_image(p, addr, data) ==
    LET param == to_le_bytes(addr, 4) \o <<0, 0, 0, 0>>
                    \o to_le_bytes(Len(data), 4) \o <<0, 0, 0, 0>>
        p1 == write_all(p, FrameHdr(DataType.ProtocolFlow, Len(param)))
        p2 == write_all(p1, param)
        p3 == write_all(p2, FrameHdr(DataType.ProtocolFlow, Len(data)))
        p4 == write_chunks(p3, data, 1024)
        status == get_status(p4) IN
    IF ~status.ok THEN WithStatus(status, <<>>)
    ELSE IF status.val # 0
    THEN WithStatus(PErr("Other", status.p), <<status.val>>)
    ELSE WithStatus(POk(TRUE, status.p), <<status.val>>)

\* boot_to if it took any second status.
boot_to_sync_any(p) ==
    LET status == get_status(p) IN
    IF ~status.ok THEN WithStatus(status, <<>>)
    ELSE WithStatus(POk(TRUE, status.p), <<status.val>>)

\* boot_to: the second status.
boot_to_sync(p) ==
    LET status == get_status(p) IN
    IF ~status.ok THEN WithStatus(status, <<>>)
    ELSE IF status.val # Cmd.SyncSignal /\ status.val # 0
    THEN WithStatus(PErr("Other", status.p), <<status.val>>)
    ELSE WithStatus(POk(TRUE, status.p), <<status.val>>)

\* devctrl if it went on whatever the status of the sub-command.
devctrl_sub_unchecked(p, cmd, param) ==
    LET c1 == send_cmd(p, Cmd.DeviceCtrl)
        status1 == get_status(c1.p) IN
    IF ~status1.ok THEN status1
    ELSE IF status1.val # 0 THEN PErr("Other", status1.p) ELSE
    LET c2 == send_cmd(status1.p, cmd)
        status2 == get_status(c2.p) IN
    IF ~status2.ok THEN status2
    ELSE IF param # <<>>
    THEN LET d == send_data(status2.p, param[1]) IN
         IF ~d.ok THEN d ELSE POk(<<>>, d.p)
    ELSE read_data(status2.p)

\* XFlash::devctrl
devctrl(p, cmd, param) ==
    LET c1 == send_cmd(p, Cmd.DeviceCtrl)
        status1 == get_status(c1.p) IN
    IF ~status1.ok THEN status1
    ELSE IF status1.val # 0 THEN PErr("Other", status1.p) ELSE
    LET c2 == send_cmd(status1.p, cmd)
        status2 == get_status(c2.p) IN
    IF ~status2.ok THEN status2
    ELSE IF status2.val # 0 THEN PErr("Other", status2.p)
    ELSE IF param # <<>>
    THEN LET d == send_data(status2.p, param[1]) IN
         IF ~d.ok THEN d ELSE POk(<<>>, d.p)
    ELSE read_data(status2.p)

\* boot_extensions if it took any acknowledgement.
boot_extensions_ack_any(p) ==
    LET ack == devctrl(p, Cmd.ExtAck, <<>>) IN
    IF ~ack.ok THEN ack ELSE
    LET status == get_status(ack.p) IN
    IF ~status.ok THEN status
    ELSE IF status.val # 0 THEN PErr("Other", status.p)
    ELSE POk(TRUE, status.p)

\* exts::boot_extensions after boot_to: the ExtAck exchange.
boot_extensions_ack(p) ==
    LET ack == devctrl(p, Cmd.ExtAck, <<>>) IN
    IF ~ack.ok THEN ack ELSE
    LET status == get_status(ack.p) IN
    IF ~status.ok THEN status
    ELSE IF status.val # 0 THEN PErr("Other", status.p)
    ELSE IF Len(ack.val) < 4 \/ SubSeq(ack.val, 1, 4) # <<164, 163, 162, 161>>
    THEN PErr("Other", status.p)
    ELSE POk(TRUE, status.p)

\* XFlash::new: the latch of the extensions.
XFlash_new == [using_exts |-> FALSE]

\* A region of a DA file.
DAEntryRegion(addr, length, data, sig_len) ==
    [addr |-> addr, length |-> length, data |-> data, sig_len |-> sig_len]

\* get_da1 if it asked only for the region it returns to be there.
get_da1_if_present(da) ==
    IF Len(da.regions) >= 2 THEN <<da.regions[2]>> ELSE <<>>

\* DA::get_da1, DA::get_da2: an Option as a sequence of at most one item.
get_da1(da) == IF Len(da.regions) >= 3 THEN <<da.regions[2]>> ELSE <<>>
get_da2(da) == IF Len(da.regions) >= 3 THEN <<da.regions[3]>> ELSE <<>>

(* The DA files, the images and what the device may deliver.               *)

\* The longest image booted on its own: a chunk of 1024 bytes and six
\* more bytes.
MaxImageLen == 1030

\* An image of n bytes, none of them zero.
Image(n) == [i \in 1..n |-> (i % 251) + 1]

ImageLens == {0, 3, MaxImageLen}

\* DA1 as in scenario S3, and a DA2.
DA1Region == DAEntryRegion(2097152, 4, <<222, 173, 190, 239>>, 0)
DA2Region == DAEntryRegion(1073741824, 3, Image(3), 0)

\* A DA with its three regions, one that lacks DA2, one without regions,
\* and one with a fourth region after DA2.
DAs ==
    {[regions |-> <<DAEntryRegion(0, 0, <<>>, 0), DA1Region, DA2Region>>],
     [regions |-> <<DAEntryRegion(0, 0, <<>>, 0), DA1Region>>],
     [regions |-> <<>>],
     [regions |-> <<DAEntryRegion(0, 0, <<>>, 0), DA1Region, DA2Region,
                    DAEntryRegion(1075838976, 2, <<202, 254>>, 0)>>]}

\* upload_da: the DA2 image after the Carbonara exploit, which leaves
\* da2.data or supplies a patched image.
Carbonara(da2) == {da2.data, Differing(da2.data)}

\* exts::prepare_extensions: None, or the patched extension blob.
prepare_extensions(da) ==
    IF get_da2(da) = <<>> THEN {<<>>}
    ELSE {<<>>, <<<<17, 17, 17, 17, 34, 34, 34, 34>>>>}

\* Status frames of the exchanges after DA1: zero, a failure code, SYNC.
FlowStatusRx ==
    FrameRx({to_le_bytes(0, 4), to_le_bytes(49153, 4),
             to_le_bytes(Cmd.SyncSignal, 4)})

\* The sync frame after the setup: its header and its payload.
SyncFrameRx ==
    Streams(<<{FrameHdr(DataType.ProtocolFlow, 4), BadMagicHdr,
               FrameHdr(2, 4), FrameHdr(DataType.ProtocolFlow, 2)},
              {to_le_bytes(Cmd.SyncSignal, 4), to_le_bytes(0, 4)}>>)

\* The ExtAck exchange: two statuses, the acknowledgement, a status.
ExtAckRx ==
    LET st == {Frame(to_le_bytes(0, 4)), Frame(to_le_bytes(49153, 4))} IN
    Streams(<<st, st,
              {Frame(<<164, 163, 162, 161>>), Frame(<<164, 163>>),
               Frame(<<161, 162, 163, 164>>)}, st>>)

BringUpOps == {"upload_stage1", "boot_to", "upload_da", "get_status"}

InitBringUp ==
    /\ op \in {[fn |-> f, da |-> d, addr |-> 1073741824, data |-> Image(n),
                using_exts |-> u] :
                 f \in BringUpOps, d \in DAs, n \in ImageLens,
                 u \in BOOLEAN}
    /\ op.fn = "boot_to" \/ op.data = <<>>
    /\ op.fn = "upload_da" \/ (Len(op.da.regions) = 3 /\ ~op.using_exts)
    /\ pc = op.fn
    /\ stack = <<>>
    /\ loc = [da1 |-> DA1Region, addr |-> op.addr, data |-> op.data,
              status |-> <<>>, using_exts |-> op.using_exts]
    /\ rv = NoRet
    /\ io = <<>>

\* get_status on its own, on every shape of frame.
Do_get_status ==
    /\ pc = "get_status"
    /\ \E rx \in FrameRx(StatusPayloads \cup {<<>>, <<7>>, <<1, 0, 0, 0, 9>>}) :
         RunCommand(get_status(rx))

Do_upload_stage1 ==
    /\ pc = "upload_stage1"
    /\ LET d == loc.da1 IN
       \E rx \in SendDaStreams([da_data |-> d.data, da_len |-> d.length,
                                address |-> d.addr, sig_len |-> d.sig_len]) :
         Try(send_da(rx, d.data, d.length, d.addr, d.sig_len),
             "upload_stage1.jump_da")
    /\ UNCHANGED <<op, loc>>

Do_upload_stage1_jump_da ==
    /\ pc = "upload_stage1.jump_da"
    /\ \E rx \in JumpDaStreams(loc.da1.addr) :
         Try(jump_da(rx, loc.da1.addr), "upload_stage1.sync_byte")
    /\ UNCHANGED <<op, loc>>

Do_upload_stage1_sync_byte ==
    /\ pc = "upload_stage1.sync_byte"
    /\ \E rx \in RxOf({<<192>>, <<193>>, <<0>>}) :
         Try(upload_stage1_sync_byte(rx), "upload_stage1.setup_env")
    /\ UNCHANGED <<op, loc>>

Do_upload_stage1_setup_env ==
    /\ pc = "upload_stage1.setup_env"
    /\ \E rx \in FlowStatusRx :
         Try(upload_stage1_setup_env(rx), "upload_stage1.setup_hw")
    /\ UNCHANGED <<op, loc>>

Do_upload_stage1_setup_hw ==
    /\ pc = "upload_stage1.setup_hw"
    /\ \E rx \in FlowStatusRx :
         Try(upload_stage1_setup_hw(rx), "upload_stage1.sync_frame")
    /\ UNCHANGED <<op, loc>>

Do_upload_stage1_sync_frame ==
    /\ pc = "upload_stage1.sync_frame"
    /\ \E rx \in SyncFrameRx : RunCommand(upload_stage1_sync_frame(rx))

Do_boot_to ==
    /\ pc = "boot_to"
    /\ \E rx \in FlowStatusRx :
         LET r == boot_to_cmd(rx) IN
         /\ Try(r, "boot_to.image")
         /\ loc' = [loc EXCEPT !.status = r.status]
    /\ UNCHANGED op

Do_boot_to_image ==
    /\ pc = "boot_to.image"
    /\ \E rx \in FlowStatusRx :
         LET r == boot_to_image(rx, loc.addr, loc.data) IN
         /\ Try(r, "boot_to.sync")
         /\ loc' = [loc EXCEPT !.status = @ \o r.status]
    /\ UNCHANGED op

Do_boot_to_sync ==
    /\ pc = "boot_to.sync"
    /\ \E rx \in FlowStatusRx :
         LET r == boot_to_sync(rx) IN
         /\ Consumed(r)
         /\ io' = io \o r.p.ev
         /\ Return(ResultOf(r))
         /\ loc' = [loc EXCEPT !.status = @ \o r.status]
    /\ UNCHANGED op

\* exts::boot_extensions up to its boot_to.
Do_exts_boot_extensions ==
    /\ pc = "exts::boot_extensions"
    /\ \E ext_data \in prepare_extensions(op.da) :
         IF ext_data = <<>>
         THEN Return(Err("Other")) /\ loc' = loc
         ELSE /\ loc' = [loc EXCEPT !.addr = 1744830464,
                                    !.data = ext_data[1]]
              /\ Call("boot_to", "exts::boot_extensions.ack")
    /\ UNCHANGED <<op, io>>

\* exts::boot_extensions after its boot_to.
Do_exts_boot_extensions_ack ==
    /\ pc = "exts::boot_extensions.ack"
    /\ IF ~rv.ok
       THEN Return(Err(rv.kind)) /\ UNCHANGED <<op, loc, io>>
       ELSE \E rx \in ExtAckRx : RunCommand(boot_extensions_ack(rx))

\* XFlash::boot_extensions
Do_boot_extensions ==
    /\ pc = "boot_extensions"
    /\ IF loc.using_exts THEN Return(Ok(TRUE))
       ELSE Call("exts::boot_extensions", "boot_extensions.latch")
    /\ UNCHANGED <<op, loc, io>>

Do_boot_extensions_latch ==
    /\ pc = "boot_extensions.latch"
    /\ IF ~rv.ok THEN Return(Err(rv.kind)) /\ loc' = loc
       ELSE loc' = [loc EXCEPT !.using_exts = TRUE] /\ Return(Ok(TRUE))
    /\ UNCHANGED <<op, io>>

\* upload_da up to upload_stage1.
Do_upload_da ==
    /\ pc = "upload_da"
    /\ IF get_da1(op.da) = <<>>
       THEN Return(Err("NotFound")) /\ loc' = loc
       ELSE /\ loc' = [loc EXCEPT !.da1 = get_da1(op.da)[1]]
            /\ Call("upload_stage1", "upload_da.stage1")
    /\ UNCHANGED <<op, io>>

\* upload_da from the result of upload_stage1 to boot_to.
Do_upload_da_stage1 ==
    /\ pc = "upload_da.stage1"
    /\ IF ~rv.ok THEN Return(Err("Other")) /\ loc' = loc
       ELSE IF get_da2(op.da) = <<>>
       THEN Return(Err("NotFound")) /\ loc' = loc
       ELSE LET da2 == get_da2(op.da)[1] IN
            \E da2data \in Carbonara(da2) :
              /\ loc' = [loc EXCEPT !.addr = da2.addr, !.data = da2data]
              /\ Call("boot_to", "upload_da.boot_to")
    /\ UNCHANGED <<op, io>>

\* upload_da from the result of boot_to to boot_extensions.
Do_upload_da_boot_to ==
    /\ pc = "upload_da.boot_to"
    /\ IF rv.ok /\ rv.val = TRUE
       THEN Call("boot_extensions", "upload_da.exts")
       ELSE Return(Err("Other"))
    /\ UNCHANGED <<op, loc, io>>

\* upload_da after boot_extensions.
Do_upload_da_exts ==
    /\ pc = "upload_da.exts"
    /\ IF ~rv.ok THEN Return(Err(rv.kind)) ELSE Return(Ok(TRUE))
    /\ UNCHANGED <<op, loc, io>>

NextBringUp ==
    \/ Do_get_status
    \/ Do_upload_stage1
    \/ Do_upload_stage1_jump_da
    \/ Do_upload_stage1_sync_byte
    \/ Do_upload_stage1_setup_env
    \/ Do_upload_stage1_setup_hw
    \/ Do_upload_stage1_sync_frame
    \/ Do_boot_to
    \/ Do_boot_to_image
    \/ Do_boot_to_sync
    \/ Do_exts_boot_extensions
    \/ Do_exts_boot_extensions_ack
    \/ Do_boot_extensions
    \/ Do_boot_extensions_latch
    \/ Do_upload_da
    \/ Do_upload_da_stage1
    \/ Do_upload_da_boot_to
    \/ Do_upload_da_exts

SpecBringUp == InitBringUp /\ [][NextBringUp]_vars

----------------------------------------------------------------------------
(* Properties of the DA bring-up.                                          *)

\* The magic as it goes over the wire, and a frame of protocol flow.
WireMagic == <<254, 238, 238, 254>>
WireFrame(payload) ==
    WireMagic \o <<1, 0, 0, 0>> \o <<Len(payload) % 256, Len(payload) \div 256,
                                     0, 0>> \o payload

\* The bytes written by the events of ev, in order.
Written(ev) ==
    Concat([i \in 1..Len(ev) |-> IF ev[i].k = "w" THEN ev[i].b ELSE <<>>])

\* The exchange of a successful send_da and jump_da of DA1 (scenario S3),
\* with a checksum of zero.
Stage1Upload ==
    <<Wr(<<215>>), Rd(<<215>>), Wr(<<0, 32, 0, 0>>), Rd(<<0, 32, 0, 0>>),
      Wr(<<0, 0, 0, 4>>), Rd(<<0, 0, 0, 4>>),
      Wr(<<0, 0, 0, 0>>), Rd(<<0, 0, 0, 0>>), Rd(<<0, 0>>),
      Wr(<<222, 173, 190, 239>>), Rd(<<0, 0>>), Rd(<<0, 0>>),
      Wr(<<213>>), Rd(<<213>>), Wr(<<0, 0, 32, 0>>), Rd(<<0, 0, 32, 0>>),
      Rd(<<0, 0>>)>>

\* ev is the exchange of a successful send_da and jump_da of DA1, whatever
\* the checksum.
IsStage1Upload(ev) ==
    /\ Len(ev) = Len(Stage1Upload)
    /\ ev[11].k = "r" /\ Len(ev[11].b) = 2
    /\ [ev EXCEPT ![11] = Rd(<<0, 0>>)] = Stage1Upload

\* What upload_stage1 writes after the sync byte.
Stage1Setup ==
    WireFrame(<<83, 89, 78, 67>>)
        \o WireFrame(to_le_bytes(Cmd.SetupEnvironment, 4))
        \o WireFrame(<<2, 0, 0, 0, 1, 0, 0, 0, 1, 0, 0, 0,
                       0, 0, 0, 0, 0, 0, 0, 0>>)
        \o WireFrame(to_le_bytes(Cmd.SetupHwInitParams, 4))
        \o WireFrame(<<0, 0, 0, 0>>)

\* upload_stage1 has returned, to its caller or to upload_da.
Stage1Returned ==
    \/ op.fn = "upload_stage1" /\ pc = "done"
    \/ pc = "upload_da.stage1"

\* The place in io of the read of the sync byte.
SyncByteIdx == Len(Stage1Upload) + 1

\* C4: upload_stage1 returns Ok only if send_da and jump_da of DA1
\* succeeded, the sync byte read was 0xC0, then SyncSignal,
\* SetupEnvironment with {2,1,1,0,0} and SetupHwInitParams with 4 zero
\* bytes were sent in this order, and at last a header {magic, 1, 4} and a
\* payload equal to SyncSignal were read; no XFlash frame is written before
\* 0xC0 was read, and another sync byte, header or payload ends it in
\* failure.
C4_Stage1StateMachine ==
    op.fn \in {"upload_stage1", "upload_da"} =>
       /\ \A i \in 1..Len(io) :
             (io[i].k = "w" /\ IsPrefix(WireMagic, io[i].b)) =>
                /\ i > SyncByteIdx
                /\ io[SyncByteIdx] = Rd(<<192>>)
       /\ (Stage1Returned /\ rv.ok) =>
             /\ Len(io) > SyncByteIdx
             /\ IsStage1Upload(SubSeq(io, 1, SyncByteIdx - 1))
             /\ io[SyncByteIdx] = Rd(<<192>>)
             /\ Written(SubSeq(io, SyncByteIdx + 1, Len(io))) = Stage1Setup
             /\ io[Len(io) - 1] = Rd(WireMagic \o <<1, 0, 0, 0, 4, 0, 0, 0>>)
             /\ io[Len(io)] = Rd(<<83, 89, 78, 67>>)
       /\ (Stage1Returned /\ Len(io) >= SyncByteIdx
             /\ io[SyncByteIdx] # Rd(<<192>>)) =>
             ~rv.ok /\ Len(io) = SyncByteIdx

\* upload_stage1 returned Ok to its caller.
C4_Witness ==
    /\ op.fn = "upload_stage1"
    /\ pc = "done"
    /\ rv.ok
    /\ io[11].b # <<0, 0>>

\* upload_da has returned after a read of the sync byte that timed out.
SyncByteTimedOut ==
    /\ op.fn = "upload_da"
    /\ pc = "done"
    /\ Len(io) = SyncByteIdx
    /\ io[SyncByteIdx] = RdErr("TimedOut")

\* C5: when the read of the DA1 sync byte times out, the error upload_da
\* returns has the kind TimedOut, and no other failure of the bring-up is
\* returned with this kind.
C5_TimeoutKind ==
    (op.fn = "upload_da" /\ pc = "done") =>
       /\ SyncByteTimedOut => rv.kind = "TimedOut"
       /\ (~rv.ok /\ Len(io) > SyncByteIdx) => rv.kind # "TimedOut"
       /\ (~rv.ok /\ Len(io) = SyncByteIdx /\ io[SyncByteIdx].k = "r") =>
             rv.kind # "TimedOut"

\* upload_stage1 itself returns the time-out with its kind.
C5_Stage1Witness ==
    /\ pc = "upload_da.stage1"
    /\ Len(io) = SyncByteIdx
    /\ io[SyncByteIdx] = RdErr("TimedOut")
    /\ rv.kind = "TimedOut"

\* boot_to has returned, to its caller, to upload_da or to boot_extensions.
BootToReturned ==
    \/ op.fn = "boot_to" /\ pc = "done"
    \/ pc \in {"upload_da.boot_to", "exts::boot_extensions.ack"}

\* C6: boot_to returns Ok if and only if the status after the BootTo
\* command is 0, the first status after the image is 0 and the second is
\* SyncSignal or 0; when the first status is not 0, neither the parameter
\* frame nor the image is written.
C6_BootToStatuses ==
    /\ BootToReturned =>
         (rv.ok <=> /\ Len(loc.status) = 3
                    /\ loc.status[1] = 0
                    /\ loc.status[2] = 0
                    /\ loc.status[3] \in {1129208147, 0})
    /\ (op.fn = "boot_to" /\ loc.status # <<>> /\ loc.status[1] # 0) =>
         /\ pc = "done"
         /\ ~rv.ok
         /\ Written(io) = WireFrame(to_le_bytes(Cmd.BootTo, 4))

\* boot_to returned Ok for an image of more than one chunk, on SYNC.
C6_Witness ==
    /\ op.fn = "boot_to"
    /\ pc = "done"
    /\ rv.ok
    /\ Len(op.data) > 1024
    /\ loc.status = <<0, 0, 1129208147>>

----------------------------------------------------------------------------
(* Flash read and write (da/xflash/flash.rs).                              *)

\* `let status = xflash.get_status()?; if status != 0 { return Err(..) }`
status_must_be_zero(status) ==
    IF ~status.ok THEN status
    ELSE IF status.val # 0 THEN PErr("Other", status.p)
    ELSE POk(TRUE, status.p)

\* The parameter block of read_flash and write_flash: storage_type 1,
\* partition_type 8, addr and size as u64, nand_ext.
flash_param(addr, size) ==
    to_le_bytes(1, 4) \o to_le_bytes(8, 4) \o to_le_bytes(addr, 8)
        \o to_le_bytes(size, 8) \o Concat([i \in 1..8 |-> to_le_bytes(0, 4)])

\* read_flash: the ReadData command (its result is dropped) and its status.
read_flash_cmd(p) ==
    status_must_be_zero(get_status(send_cmd(p, Cmd.ReadData).p))

\* read_flash: the parameters and the status after them.
read_flash_params(p, addr, size) ==
    LET d == send_data(p, flash_param(addr, size)) IN
    IF ~d.ok THEN d ELSE status_must_be_zero(get_status(d.p))

\* The result of one turn of the loop of read_flash: the chunk read and
\* whether the loop is left.
Turn(r, chunk, brk) ==
    [ok |-> r.ok, val |-> chunk, kind |-> r.kind, p |-> r.p, brk |-> brk]

\* read_flash: after the ack, the status and the two tests that follow.
read_flash_acked(chunk, status, bytes_read, size) ==
    IF ~status.ok THEN Turn(status, <<>>, TRUE)
    ELSE Turn(status, chunk,
              status.val # 0 \/ bytes_read + Len(chunk) >= size)

\* The loop of read_flash if it read the status without sending the ack.
read_flash_turn_no_ack(chunk, bytes_read, size) ==
    IF ~chunk.ok THEN Turn(chunk, <<>>, TRUE)
    ELSE IF chunk.val = <<>> THEN Turn(chunk, <<>>, TRUE)
    ELSE read_flash_acked(chunk.val, get_status(chunk.p), bytes_read, size)

\* read_flash: one turn of the loop, from the chunk that read_data gave.
read_flash_turn(chunk, bytes_read, size) ==
    IF ~chunk.ok THEN Turn(chunk, <<>>, TRUE)
    ELSE IF chunk.val = <<>> THEN Turn(chunk, <<>>, TRUE)
    ELSE read_flash_acked(
             chunk.val,
             get_status(write_all(write_all(chunk.p,
                                            FrameHdr(DataType.ProtocolFlow, 4)),
                                  <<0, 0, 0, 0>>)),
             bytes_read, size)

\* write_flash: the payload made `size` bytes long.
actual_data_unpadded(data, size) ==
    IF Len(data) > size THEN SubSeq(data, 1, size) ELSE data

actual_data(data, size) ==
    IF Len(data) < size THEN data \o [i \in 1..(size - Len(data)) |-> 0]
    ELSE IF Len(data) > size THEN SubSeq(data, 1, size)
    ELSE data

\* write_flash: chunk_size
chunk_size == 8192

\* The sum of the bytes data[lo..hi].
RECURSIVE fold_sum(_, _, _)
fold_sum(data, lo, hi) ==
    IF lo > hi THEN 0
    ELSE IF lo = hi THEN data[lo]
    ELSE fold_sum(data, lo, (lo + hi) \div 2)
            + fold_sum(data, (lo + hi) \div 2 + 1, hi)

\* The checksum of write_flash if the sum were not cut to 16 bits.
checksum_unmasked(chunk) == fold_sum(chunk, 1, Len(chunk))

\* write_flash: the additive 16-bit checksum of a chunk.
checksum(chunk) == fold_sum(chunk, 1, Len(chunk)) % 65536

\* write_flash: the WriteData command and its status.
write_flash_cmd(p) ==
    status_must_be_zero(get_status(send_cmd(p, Cmd.WriteData).p))

\* write_flash: the parameters.
write_flash_params(p, addr, size) == send_data(p, flash_param(addr, size))

\* The loop of write_flash if it sent the checksum before the zero.
write_flash_chunk_checksum_first(p, chunk) ==
    send_data(send(send(p, checksum(chunk), DataType.ProtocolFlow).p,
                   0, DataType.ProtocolFlow).p,
              chunk)

\* write_flash: one turn of the loop.
write_flash_chunk(p, chunk) ==
    send_data(send(send(p, 0, DataType.ProtocolFlow).p,
                   checksum(chunk), DataType.ProtocolFlow).p,
              chunk)

\* write_flash: the final status.
write_flash_status(p) == status_must_be_zero(get_status(p))

(* storage.rs: the GPT.                                                    *)

\* A panic of the running thread (slice index out of range, arithmetic
\* overflow in a checked build).
Panic == [ok |-> FALSE, val |-> 0, kind |-> "panic"]

\* A panic ends the operation whoever called it.
Abort ==
    /\ pc' = "done"
    /\ stack' = <<>>
    /\ rv' = Panic

\* u64 :: from_le_bytes for the values of the model, which stay below 2^31:
\* the four high bytes are zero.
u64_from_le_bytes(b) == b[1] + 256 * b[2] + 65536 * b[3] + 16777216 * b[4]

\* "EFI PART"
EfiPart == <<69, 70, 73, 32, 80, 65, 82, 84>>

\* The candidate offsets if parse_gpt looked at the first one only.
sector_sizes_first_only == <<512>>

\* parse_gpt: the candidate offsets of the header.
sector_sizes == <<512, 4096, 32768, 65536, 131072>>

\* parse_gpt: the first candidate offset at which the magic is found, as a
\* set of at most one element.
RECURSIVE gpt_find_magic(_, _, _)
gpt_find_magic(data, len, i) ==
    IF i > Len(sector_sizes) THEN {}
    ELSE IF /\ len >= sector_sizes[i] + 8
            /\ SubSeq(data, sector_sizes[i] + 1, sector_sizes[i] + 8) = EfiPart
         THEN {sector_sizes[i]}
         ELSE gpt_find_magic(data, len, i + 1)

\* Partition::new if it took the size in sectors.
Partition_sized_in_sectors(name, size, address) ==
    [name |-> name, size |-> size \div 512, address |-> address]

\* Partition::new
Partition(name, size, address) ==
    [name |-> name, size |-> size, address |-> address]

\* parse_gpt: the name of an entry, UTF-16 code units up to the first zero.
RECURSIVE gpt_name(_, _)
gpt_name(entry, k) ==
    IF k > 36 THEN <<>>
    ELSE LET c == u16_from_le_bytes(SubSeq(entry, 55 + 2 * k, 56 + 2 * k)) IN
         IF c = 0 THEN <<>> ELSE <<c>> \o gpt_name(entry, k + 1)

\* parse_gpt: the loop over the entries, from entry i on.
RECURSIVE gpt_entries(_, _, _, _, _, _)
gpt_entries(data, len, start_offset, num_entries, i, partitions) ==
    IF i >= num_entries THEN Ok(partitions)
    ELSE LET current_offset == start_offset + i * 128 IN
         IF current_offset + 128 > len THEN Panic
         ELSE LET entry == SubSeq(data, current_offset + 1,
                                  current_offset + 128)
                  first_lba == u64_from_le_bytes(SubSeq(entry, 33, 40))
                  last_lba == u64_from_le_bytes(SubSeq(entry, 41, 48)) IN
              IF \A j \in 1..16 : entry[j] = 0
              THEN gpt_entries(data, len, start_offset, num_entries, i + 1,
                               partitions)
              ELSE IF last_lba < first_lba THEN Err("InvalidData")
              ELSE gpt_entries(data, len, start_offset, num_entries, i + 1,
                               Append(partitions,
                                      Partition(gpt_name(entry, 1),
                                                (last_lba - first_lba + 1) * 512,
                                                first_lba * 512)))

\* parse_gpt, for data of `len` bytes
parse_gpt(data, len) ==
    IF gpt_find_magic(data, len, 1) = {} THEN Err("InvalidData")
    ELSE IF len < 1024 THEN Panic
    ELSE LET hdr == SubSeq(data, 513, 1024)
             partition_entry_lba == u64_from_le_bytes(SubSeq(hdr, 73, 80))
             num_entries == u32_from_le_bytes(SubSeq(hdr, 81, 84))
             entry_size == u32_from_le_bytes(SubSeq(hdr, 85, 88)) IN
         IF entry_size # 128 THEN Err("InvalidData")
         ELSE gpt_entries(data, len, partition_entry_lba * 512, num_entries,
                          0, <<>>)

\* Zero bytes.
Zeros(n) == [i \in 1..n |-> 0]

\* The bytes of an ASCII name in UTF-16LE.
RECURSIVE Utf16(_)
Utf16(name) ==
    IF name = <<>> THEN <<>> ELSE <<Head(name), 0>> \o Utf16(Tail(name))

\* An entry of a partition table: a type GUID, the LBAs, the name.
GptEntry(name, first_lba, last_lba) ==
    [i \in 1..16 |-> 160 + i] \o Zeros(16) \o to_le_bytes(first_lba, 8)
        \o to_le_bytes(last_lba, 8) \o Zeros(8) \o Utf16(name)
        \o Zeros(72 - 2 * Len(name))

\* A disk image: a protective MBR, the GPT header with the table at LBA 2,
\* and the entries.
GptImage(magic, entry_size, entries) ==
    Zeros(512) \o magic \o Zeros(64) \o to_le_bytes(2, 8)
        \o to_le_bytes(Len(entries), 4) \o to_le_bytes(entry_size, 4)
        \o Zeros(424) \o Concat(entries)

\* The names of the partitions of the model, as code units.
Name == [seccfg |-> <<115, 101, 99, 99, 102, 103>>,
         boot |-> <<98, 111, 111, 116>>,
         nvram |-> <<110, 118, 114, 97, 109>>]

(* seccfg.rs: the seccfg v4 record.                                        *)

V4_MAGIC_BEGIN == 1296911693
V4_MAGIC_END == 1162167621

\* enum LockFlag
LockFlag == {"Lock", "Unlock"}

\* The algorithms if parse tried the SEJ block before the software
\* transform.
SejAlgos_block_first == <<"HW", "SW", "HWv3", "HWv4">>

\* enum SecCfgV4Algo, in the order parse tries them, and its variant None
SejAlgos == <<"SW", "HW", "HWv3", "HWv4">>

\* Option<SecCfgV4Algo>: None is <<>>, Some(a) is <<a>>.
\* struct SecCfgV4
SecCfgV4(seccfg_ver, seccfg_size, lock_state, critical_lock_state, sboot_runtime, algo) ==
    [seccfg_ver |-> seccfg_ver, seccfg_size |-> seccfg_size,
     lock_state |-> lock_state, critical_lock_state |-> critical_lock_state,
     sboot_runtime |-> sboot_runtime, algo |-> algo]

\* SecCfgV4::new
SecCfgV4_new == SecCfgV4(4, 20, 0, 0, 0, <<>>)

\* Sha256::digest of the sha2 crate, which is not part of the repository:
\* a digest of 32 bytes that depends on every byte of the data and on
\* where it stands.
RECURSIVE WeightedSum(_, _, _)
WeightedSum(data, i, j) ==
    IF j > Len(data) THEN 0
    ELSE ((i + j) * data[j] + WeightedSum(data, i, j + 1)) % 256
Sha256(data) ==
    [i \in 1..32 |-> (WeightedSum(data, i, 1) + 31 * i + Len(data)) % 256]

\* The seven header words, little-endian.
seccfg_header(cfg) ==
    to_le_bytes(V4_MAGIC_BEGIN, 4) \o to_le_bytes(cfg.seccfg_ver, 4)
        \o to_le_bytes(cfg.seccfg_size, 4) \o to_le_bytes(cfg.lock_state, 4)
        \o to_le_bytes(cfg.critical_lock_state, 4)
        \o to_le_bytes(cfg.sboot_runtime, 4) \o to_le_bytes(V4_MAGIC_END, 4)

\* The transforms of SEJCrypto (crypto/sej.rs): keyed, length-preserving
\* wraps of the data; decrypting undoes encrypting under the same key.
sej_wrap(data, key, encrypt) ==
    [i \in 1..Len(data) |->
        (data[i] + (IF encrypt THEN 1 ELSE 255) * ((key + 7 * i) % 256))
            % 256]

\* The key of the software transform, and the key selector that tells the
\* hardware transforms apart.
SwKey == 89
KeySelector == [HW |-> 1, HWv3 |-> 3, HWv4 |-> 4]

\* sej_seccfg_sw
sej_seccfg_sw(data, encrypt) == sej_wrap(data, SwKey, encrypt)

\* sej_seccfg_hw, sej_seccfg_hw_v3, sej_seccfg_hw_v4, given the value the
\* SEJ block delivered through read32
sej_seccfg_hw(algo, data, encrypt, value) ==
    sej_wrap(data, (value + KeySelector[algo]) % 256, encrypt)

\* SecCfgV4::parse up to the search for the algorithm: the record without
\* its algorithm, the sealed hash and the reference hash
parse_header(data, len) ==
    IF len < 64 THEN Err("InvalidData")
    ELSE LET magic == u32_from_le_bytes(SubSeq(data, 1, 4))
             seccfg_ver == u32_from_le_bytes(SubSeq(data, 5, 8))
             seccfg_size == u32_from_le_bytes(SubSeq(data, 9, 12))
             lock_state == u32_from_le_bytes(SubSeq(data, 13, 16))
             critical_lock_state == u32_from_le_bytes(SubSeq(data, 17, 20))
             sboot_runtime == u32_from_le_bytes(SubSeq(data, 21, 24))
             endflag == u32_from_le_bytes(SubSeq(data, 25, 28))
             cfg == SecCfgV4(seccfg_ver, seccfg_size, lock_state,
                             critical_lock_state, sboot_runtime, <<>>) IN
         IF magic # V4_MAGIC_BEGIN \/ endflag # V4_MAGIC_END
         THEN Err("InvalidData")
         \* seccfg_size - 32 below zero: the subtraction panics in a build
         \* with overflow checks and wraps in one without, where the slice
         \* data[hash_start..hash_start + 32] then panics.
         ELSE IF 0 <= seccfg_size /\ seccfg_size < 32 THEN Panic
         \* a seccfg_size of 0x80000000 and more (held as a negative number)
         ELSE IF seccfg_size < 0 \/ len < seccfg_size
         THEN Err("InvalidData")
         ELSE Ok([cfg |-> cfg,
                  hash |-> SubSeq(data, seccfg_size - 31, seccfg_size),
                  calculated_hash |-> Sha256(seccfg_header(cfg))])

\* SecCfgV4::create: the lock states of the flag
create_lock(cfg, lock_flag) ==
    IF lock_flag = "Lock"
    THEN [cfg EXCEPT !.lock_state = 1, !.critical_lock_state = 1]
    ELSE [cfg EXCEPT !.lock_state = 3, !.critical_lock_state = 0]

\* SecCfgV4::create if it left the hash out of the blob.
create_blob_header_only(cfg, encrypted_hash) ==
    seccfg_header(cfg) \o Zeros(512 - 28)

\* SecCfgV4::create: the header, the sealed hash and the padding
create_blob(cfg, encrypted_hash) ==
    seccfg_header(cfg) \o encrypted_hash
        \o [i \in 1..((512 - ((28 + Len(encrypted_hash)) % 512)) % 512) |-> 0]

\* A seccfg partition of 512 bytes: the header, the sealed hash in the 32
\* bytes below seccfg_size, zero elsewhere.
SeccfgBlob(cfg, sealed) ==
    LET hdr == seccfg_header(cfg) IN
    [i \in 1..512 |->
        IF i <= 28 THEN hdr[i]
        ELSE IF cfg.seccfg_size - 32 < i /\ i <= cfg.seccfg_size
        THEN sealed[i - (cfg.seccfg_size - 32)]
        ELSE 0]

(* What the storage holds.                                                 *)

\* The partition tables the storage may hold: one with the partitions
\* seccfg and boot and an empty entry between them, one without seccfg,
\* one with an entry whose LBAs are reversed, one with entries of another
\* size, one without the magic, and one cut short in the header.
GptImages ==
    {GptImage(EfiPart, 128,
              <<GptEntry(Name.boot, 64, 65), Zeros(128),
                GptEntry(Name.seccfg, 80, 80)>>),
     GptImage(EfiPart, 128, <<GptEntry(Name.boot, 64, 65)>>),
     GptImage(EfiPart, 128, <<GptEntry(Name.boot, 65, 64)>>),
     GptImage(EfiPart, 64, <<>>),
     GptImage(Zeros(8), 128, <<>>),
     SubSeq(GptImage(EfiPart, 128, <<>>), 1, 600)}

\* The value the SEJ block of the device delivers to read32.
RegisterValue == 90

\* The hash of the record, sealed with the algorithm as create seals it on
\* this device.
Sealed(cfg) ==
    LET hash == Sha256(seccfg_header(cfg)) IN
    IF cfg.algo = <<"SW">> THEN sej_seccfg_sw(hash, TRUE)
    ELSE IF cfg.algo \in {<<"HW">>, <<"HWv3">>, <<"HWv4">>}
    THEN sej_seccfg_hw(cfg.algo[1], hash, TRUE, RegisterValue)
    ELSE hash

\* A seccfg partition holding the record, sealed.
SealedBlob(cfg) == SeccfgBlob(cfg, Sealed(cfg))

\* The seccfg partitions the storage may hold: a locked record with the
\* hash in plain form, sealed in software and sealed by the SEJ block; an
\* unlocked one; a record as SecCfgV4::new makes it, with seccfg_size 20; a
\* record whose sealed hash nothing matches; and bytes that are no record.
SeccfgImages ==
    {SealedBlob(SecCfgV4(4, 60, 1, 1, 0, a)) :
        a \in {<<"None">>, <<"SW">>, <<"HW">>}}
      \cup {SealedBlob(SecCfgV4(4, 60, 3, 0, 0, <<"None">>)),
            SeccfgBlob(SecCfgV4(4, 20, 1, 1, 0, <<>>), Zeros(32)),
            SeccfgBlob(SecCfgV4(4, 60, 1, 1, 0, <<>>), Zeros(32)),
            Zeros(512)}

\* What the storage holds in the `size` bytes at `addr`; in a session the
\* seccfg partition is the one the session began with.
Storage(addr, size) ==
    IF addr = 0 THEN GptImages
    ELSE IF addr = 40960
    THEN (IF "seccfg" \in DOMAIN op THEN {op.seccfg} ELSE SeccfgImages)
    ELSE {Image(size)}

(* The flash operations and what the device may deliver.                   *)

\* The largest size read, and the longest tail after whole chunks written.
MaxReadSize == 4
MaxTail == 3

ReadSizes == {0, 2, MaxReadSize}

WriteSizes ==
    {0, MaxTail, chunk_size, chunk_size + MaxTail,
     2 * chunk_size + MaxTail}

\* The lengths of the data given to write `size` bytes: as long, longer,
\* shorter, and none.
DataLens(size) ==
    {0, size, size + 2} \cup (IF size >= 2 THEN {size - 2} ELSE {})

\* The size and the length of the data of each write.
WriteCases == UNION {{<<n, k>> : k \in DataLens(n)} : n \in WriteSizes}

\* Data whose bytes all have the largest value a byte can have.
Full(n) == [i \in 1..n |-> 255]

\* The data of a write: an image and, where the data is as long as the
\* size, the data with the largest byte sum as well.
WriteDatas(c) ==
    {Image(c[2])} \cup (IF c[1] = c[2] THEN {Full(c[2])} ELSE {})

\* A status frame, a header with a wrong magic, or a header alone.
StatusFrames ==
    {Frame(to_le_bytes(0, 4)), Frame(to_le_bytes(49153, 4)),
     Frame(to_le_bytes(Cmd.SyncSignal, 4)), BadMagicHdr,
     FrameHdr(DataType.ProtocolFlow, 4)}

\* A chunk of flash data, a header with a wrong magic, or a header alone.
ChunkFrames ==
    {Frame(<<>>), Frame(<<2>>), Frame(<<2, 3>>), Frame(<<7, 8, 9>>),
     BadMagicHdr, FrameHdr(DataType.ProtocolFlow, 2)}

\* What the device delivers when `size` bytes at `addr` are read and
\* bytes_read bytes were delivered: a read of less than a sector gets chunks
\* of a few bytes; a read of sectors gets what the storage holds there as
\* one chunk, and then no more data.
FlashContent(addr, size, bytes_read) ==
    IF size < 512 THEN ChunkFrames
    ELSE IF bytes_read > 0 THEN {Frame(<<>>), BadMagicHdr}
    ELSE {Frame(c) : c \in Storage(addr, size)} \cup {Frame(<<>>), BadMagicHdr}

FlashOps == {"read_flash", "write_flash"}

InitFlash ==
    /\ op \in {[fn |-> "read_flash", addr |-> a, size |-> n, data |-> <<>>] :
                 a \in {0, 32768}, n \in ReadSizes}
          \cup UNION {{[fn |-> "write_flash", addr |-> 32768, size |-> c[1],
                         data |-> d] : d \in WriteDatas(c)} : c \in WriteCases}
    /\ pc = op.fn
    /\ stack = <<>>
    /\ loc = [buffer |-> <<>>, bytes_read |-> 0, pos |-> 0]
    /\ rv = NoRet
    /\ io = <<>>

Do_read_flash ==
    /\ pc = "read_flash"
    /\ \E rx \in Streams(<<StatusFrames>>) :
         Try(read_flash_cmd(rx), "read_flash.params")
    /\ UNCHANGED <<op, loc>>

Do_read_flash_params ==
    /\ pc = "read_flash.params"
    /\ \E rx \in Streams(<<StatusFrames, StatusFrames>>) :
         Try(read_flash_params(rx, op.addr, op.size), "read_flash.loop")
    /\ UNCHANGED <<op, loc>>

Do_read_flash_loop ==
    /\ pc = "read_flash.loop"
    /\ \E rx \in Streams(<<FlashContent(op.addr, op.size, loc.bytes_read),
                            StatusFrames>>) :
         LET r == read_flash_turn(read_data(rx), loc.bytes_read, op.size) IN
         /\ Consumed(r)
         /\ io' = io \o r.p.ev
         /\ loc' = [loc EXCEPT !.buffer = @ \o r.val,
                               !.bytes_read = @ + Len(r.val)]
         /\ IF ~r.ok THEN Return(Err(r.kind))
            ELSE IF r.brk THEN Return(Ok(loc.buffer \o r.val))
            ELSE pc' = pc /\ UNCHANGED <<stack, rv>>
    /\ UNCHANGED op

Do_write_flash ==
    /\ pc = "write_flash"
    /\ \E rx \in Streams(<<StatusFrames>>) :
         Try(write_flash_cmd(rx), "write_flash.params")
    /\ UNCHANGED <<op, loc>>

Do_write_flash_params ==
    /\ pc = "write_flash.params"
    /\ \E rx \in Streams(<<StatusFrames>>) :
         Try(write_flash_params(rx, op.addr, op.size), "write_flash.loop")
    /\ UNCHANGED <<op, loc>>

Do_write_flash_loop ==
    /\ pc = "write_flash.loop"
    /\ loc.pos < Len(actual_data(op.data, op.size))
    /\ LET data == actual_data(op.data, op.size)
           packet_end == Min(loc.pos + chunk_size, Len(data)) IN
       /\ \E rx \in Streams(<<StatusFrames>>) :
            Try(write_flash_chunk(rx, SubSeq(data, loc.pos + 1, packet_end)),
                pc)
       /\ loc' = [loc EXCEPT !.pos = packet_end]
    /\ UNCHANGED op

Do_write_flash_status ==
    /\ pc = "write_flash.loop"
    /\ loc.pos >= Len(actual_data(op.data, op.size))
    /\ \E rx \in Streams(<<StatusFrames>>) :
         RunCommand(write_flash_status(rx))

NextFlash ==
    \/ Do_read_flash
    \/ Do_read_flash_params
    \/ Do_read_flash_loop
    \/ Do_write_flash
    \/ Do_write_flash_params
    \/ Do_write_flash_loop
    \/ Do_write_flash_status

SpecFlash == InitFlash /\ [][NextFlash]_vars

----------------------------------------------------------------------------
(* Properties of the flash read.                                           *)

\* A frame header of protocol flow as it goes over the wire.
WireHdr(len) ==
    WireMagic \o <<1, 0, 0, 0>>
        \o <<len % 256, (len \div 256) % 256, len \div 65536, 0>>

\* The parameter block: eMMC, USER, addr, size, 32 zero bytes.
WireParam(addr, size) ==
    <<1, 0, 0, 0, 8, 0, 0, 0>> \o to_le_bytes(addr, 8) \o to_le_bytes(size, 8)
        \o [i \in 1..32 |-> 0]

\* The reads of a status of zero.
ZeroStatus == <<Rd(WireHdr(4)), Rd(<<0, 0, 0, 0>>)>>

\* What read_flash exchanges until ReadData and the parameter block are
\* accepted.
ReadSetup ==
    <<Wr(WireHdr(4)), Wr(to_le_bytes(Cmd.ReadData, 4))>> \o ZeroStatus
        \o <<Wr(WireHdr(Len(WireParam(op.addr, op.size)))),
              Wr(WireParam(op.addr, op.size))>>
        \o ZeroStatus \o ZeroStatus

\* read_flash is in its loop or has left it.
ReadAccepted ==
    /\ op.fn = "read_flash"
    /\ Len(io) >= Len(ReadSetup)
    /\ pc = "read_flash.loop" \/ Len(io) > Len(ReadSetup)

\* The place in io of the j-th event of turn t of the loop (t from 0).
TurnEv(t, j) == Len(ReadSetup) + 6 * t + j

\* The turns of the loop begun so far.
Turns == (Len(io) - Len(ReadSetup) + 5) \div 6

\* A chunk was received in turn t.
ChunkRead(t) ==
    /\ Len(io) >= TurnEv(t, 2)
    /\ io[TurnEv(t, 1)].k = "r"
    /\ io[TurnEv(t, 2)].k = "r"
    /\ IsPrefix(WireMagic, io[TurnEv(t, 1)].b)

\* The chunk of turn t.
ChunkOf(t) == io[TurnEv(t, 2)].b

\* The status after the ack of turn t was read.
StatusRead(t) ==
    /\ Len(io) >= TurnEv(t, 6)
    /\ io[TurnEv(t, 5)] = Rd(WireHdr(4))
    /\ io[TurnEv(t, 6)].k = "r"

\* The chunks of the turns 0..t-1, one after the other.
RECURSIVE ChunksUpTo(_)
ChunksUpTo(t) ==
    IF t = 0 THEN <<>>
    ELSE ChunksUpTo(t - 1) \o (IF ChunkRead(t - 1) THEN ChunkOf(t - 1) ELSE <<>>)

\* The loop ends with turn t.
LoopEnds(t) ==
    /\ ChunkRead(t)
    /\ \/ ChunkOf(t) = <<>>
       \/ /\ StatusRead(t)
          /\ \/ io[TurnEv(t, 6)].b # <<0, 0, 0, 0>>
             \/ Len(ChunksUpTo(t + 1)) >= op.size

\* C7: in read_flash, once ReadData and the parameters were accepted, every
\* non-empty chunk received is appended to the result in arrival order and
\* is followed by exactly one ack frame FE EE EE FE 01 00 00 00 04 00 00 00
\* 00 00 00 00 and one status read before the next chunk is read; the loop
\* ends on an empty chunk, a non-zero status or when `size` bytes were
\* read, and no chunk is read after that.
C7_ReadLoop ==
    ReadAccepted =>
       /\ SubSeq(io, 1, Len(ReadSetup)) = ReadSetup
       /\ \A t \in 0..(Turns - 1) :
             /\ io[TurnEv(t, 1)].k # "w"
             /\ Len(io) >= TurnEv(t, 2) => io[TurnEv(t, 2)].k # "w"
             /\ (ChunkRead(t) /\ ChunkOf(t) # <<>>) =>
                   /\ Len(io) >= TurnEv(t, 5)
                   /\ io[TurnEv(t, 3)] = Wr(<<254, 238, 238, 254, 1, 0, 0, 0,
                                              4, 0, 0, 0>>)
                   /\ io[TurnEv(t, 4)] = Wr(<<0, 0, 0, 0>>)
                   /\ io[TurnEv(t, 5)].k # "w"
                   /\ Len(io) >= TurnEv(t, 6) => io[TurnEv(t, 6)].k # "w"
             /\ Len(io) > TurnEv(t, 2) => ChunkRead(t) /\ ChunkOf(t) # <<>>
             /\ Len(io) > TurnEv(t, 6) =>
                   StatusRead(t) /\ io[TurnEv(t, 6)].b = <<0, 0, 0, 0>>
             /\ LoopEnds(t) =>
                   /\ pc = "done"
                   /\ rv.ok
                   /\ Len(io) <= TurnEv(t, 6)
       /\ (pc = "done" /\ rv.ok) =>
             /\ rv.val = ChunksUpTo(Turns)
             /\ LoopEnds(Turns - 1)

\* read_flash returned two chunks in the order of their arrival.
C7_Witness ==
    /\ op.fn = "read_flash"
    /\ pc = "done"
    /\ rv.ok
    /\ op.size = 4
    /\ rv.val = <<7, 8, 9, 2, 3>>

\* A status word that is not zero was read at the place i of io.
NonZeroStatusAt(i) ==
    /\ Len(io) >= i
    /\ io[i - 1] = Rd(WireHdr(4))
    /\ io[i].k = "r"
    /\ io[i].b # <<0, 0, 0, 0>>

\* read_flash has read a status word that is not zero: after ReadData,
\* after the parameters, or after the ack of a chunk.
NonZeroStatusRead ==
    \/ NonZeroStatusAt(4)
    \/ NonZeroStatusAt(8)
    \/ NonZeroStatusAt(10)
    \/ \E t \in 0..(Turns - 1) : ChunkRead(t) /\ NonZeroStatusAt(TurnEv(t, 6))

\* C8: read_flash returns an error whenever a status word it read is not
\* zero, and never returns Ok with data after such a status.
C8_NonZeroStatusFatal ==
    (op.fn = "read_flash" /\ pc = "done" /\ NonZeroStatusRead) => ~rv.ok

\* A non-zero status after ReadData or after the parameters is returned as
\* an error.
C8_WitnessSetup ==
    /\ op.fn = "read_flash"
    /\ pc = "done"
    /\ NonZeroStatusAt(10)
    /\ ~rv.ok

----------------------------------------------------------------------------
(* Properties of the flash write.                                          *)

\* The payload the specification has write_flash transmit: the first
\* min(len, size) bytes of data, then zero bytes up to `size` bytes.
PadTo(data, len, size) ==
    SubSeq(data, 1, Min(len, size)) \o [i \in 1..(size - Min(len, size)) |-> 0]
Normalised == PadTo(op.data, Len(op.data), op.size)

\* The chunks of 0x2000 bytes of a payload: their number and the k-th.
WireChunks == (op.size + 8191) \div 8192
WireChunk(N, k) == SubSeq(N, 8192 * (k - 1) + 1, Min(8192 * k, Len(N)))

\* The sum of the bytes s[lo..hi].
RECURSIVE ByteSum(_, _, _)
ByteSum(seq, lo, hi) ==
    IF lo > hi THEN 0
    ELSE IF lo = hi THEN seq[lo]
    ELSE LET mid == (lo + hi) \div 2 IN
         ByteSum(seq, lo, mid) + ByteSum(seq, mid + 1, hi)

\* The writes of a payload: 64 bytes at a time.
WirePieces(bytes) ==
    [i \in 1..((Len(bytes) + 63) \div 64) |->
        Wr(SubSeq(bytes, 64 * i - 63, Min(64 * i, Len(bytes))))]

\* A frame carrying a 32-bit value.
WireWord(v) == <<Wr(WireHdr(4)), Wr(to_le_bytes(v, 4))>>

\* What write_flash exchanges for a chunk: a frame carrying 0, a frame
\* carrying the checksum, the chunk, and a status of zero.
WireTurn(chunk) ==
    WireWord(0) \o WireWord(ByteSum(chunk, 1, Len(chunk)) % 65536)
        \o <<Wr(WireHdr(Len(chunk)))>> \o WirePieces(chunk) \o ZeroStatus

\* The exchanges for the first k chunks of the payload N.
RECURSIVE WireTurns(_, _)
WireTurns(N, k) ==
    IF k = 0 THEN <<>>
    ELSE WireTurns(N, k - 1) \o WireTurn(WireChunk(N, k))

\* The whole exchange of a write_flash that succeeds.
WriteExchange ==
    WireWord(Cmd.WriteData) \o ZeroStatus
        \o <<Wr(WireHdr(Len(WireParam(op.addr, op.size)))),
             Wr(WireParam(op.addr, op.size))>> \o ZeroStatus
        \o WireTurns(Normalised, WireChunks) \o ZeroStatus

\* C9: write_flash sends chunk data only after WriteData was answered with
\* status 0 and the parameters were accepted; for each 0x2000-byte chunk of
\* the normalised payload (ceil(size/0x2000) chunks, the last one maybe
\* shorter) it sends a frame carrying 0, a frame carrying the checksum and
\* the chunk through send_data, whose status must be 0; after the last
\* chunk it reads a final status and returns Ok iff it is 0; a failure at a
\* chunk stops the write, no later chunk is sent.
C9_WriteOrder ==
    op.fn = "write_flash" =>
       \A E \in {WriteExchange} :
          /\ \A i \in 1..Len(io) :
                (i > Len(E) \/ io[i] # E[i]) =>
                   /\ io[i].k # "w"
                   /\ i = Len(io)
                   /\ pc = "done"
                   /\ ~rv.ok
          /\ pc = "done" => (rv.ok <=> io = E)

\* write_flash returned Ok after three chunks.
C9_Witness ==
    /\ op.fn = "write_flash"
    /\ pc = "done"
    /\ rv.ok
    /\ WireChunks = 3
    /\ op.size % 8192 # 0

\* The bytes written by the events ev[lo..hi], in order.
RECURSIVE Flat(_, _, _)
Flat(ev, lo, hi) ==
    IF lo > hi THEN <<>>
    ELSE IF lo = hi THEN (IF ev[lo].k = "w" THEN ev[lo].b ELSE <<>>)
    ELSE LET mid == (lo + hi) \div 2 IN
         Flat(ev, lo, mid) \o Flat(ev, mid + 1, hi)

\* The payloads of the frames in the bytes W from the place s on.
RECURSIVE FramesFrom(_, _)
FramesFrom(W, s) ==
    IF s + 11 > Len(W) THEN <<>>
    ELSE LET len == W[s + 8] + 256 * W[s + 9] + 65536 * W[s + 10] IN
         <<SubSeq(W, s + 12, Min(s + 11 + len, Len(W)))>>
             \o FramesFrom(W, s + 12 + len)

\* The payloads of the frames written so far.
FramesWritten == FramesFrom(Flat(io, 1, Len(io)), 1)

\* The chunk payloads among the frames F: the third of each three frames
\* after the command and the parameters.
RECURSIVE ChunkPayload(_, _)
ChunkPayload(F, k) ==
    IF 3 * k + 2 > Len(F) THEN <<>>
    ELSE F[3 * k + 2] \o ChunkPayload(F, k + 1)

\* The parameter block written has n bytes and its size field is `size`.
ParamBlock(F, n) ==
    /\ Len(F[2]) = n
    /\ SubSeq(F[2], 17, 24) = to_le_bytes(op.size, 8)

\* What is transmitted is the normalised payload, or the start of it while
\* the write is going on or when it failed.
PayloadNormalised(F) ==
    /\ IsPrefix(ChunkPayload(F, 1), Normalised)
    /\ (pc = "done" /\ rv.ok) =>
          /\ Len(ChunkPayload(F, 1)) = op.size
          /\ ChunkPayload(F, 1) = Normalised

\* C10 as stated: write_flash transmits exactly `size` payload bytes, the
\* first min(len(data), size) bytes of data and then zero bytes up to
\* `size`, and the size field of the 48-byte parameter block is `size`.
C10_Stated ==
    op.fn = "write_flash" =>
       \A F \in {FramesWritten} :
          /\ Len(F) >= 2 => ParamBlock(F, 48)
          /\ PayloadNormalised(F)

\* C10: write_flash transmits exactly `size` payload bytes, the first
\* min(len(data), size) bytes of data and then zero bytes up to `size`, and
\* the size field of the parameter block, which has 56 bytes, is `size`.
C10_Normalised ==
    op.fn = "write_flash" =>
       \A F \in {FramesWritten} :
          /\ Len(F) >= 2 => ParamBlock(F, 56)
          /\ PayloadNormalised(F)

\* write_flash returned Ok for data shorter than `size`, in two chunks.
C10_Witness ==
    /\ op.fn = "write_flash"
    /\ pc = "done"
    /\ rv.ok
    /\ 0 < Len(op.data) /\ Len(op.data) < op.size
    /\ op.size > 8192

\* A 32-bit accumulator can hold the total: u32::MAX is 16777215 * 256 + 255.
FitsU32(total) == total >= 0 /\ total \div 256 <= 16777215

\* The frame written before the k-th chunk carries the sum of the bytes of
\* the chunk written after it, modulo 0x10000, and that sum fits 32 bits.
ChecksumSent(F, k) ==
    \A sum \in {ByteSum(F[3 * k + 2], 1, Len(F[3 * k + 2]))} :
       /\ Len(F[3 * k + 2]) <= 8192
       /\ \A i \in 1..Len(F[3 * k + 2]) : F[3 * k + 2][i] \in 0..255
       /\ FitsU32(sum)
       /\ F[3 * k + 1] = to_le_bytes(sum % 65536, 4)

\* C11: the checksum sent before each write chunk is the sum of the
\* chunk's bytes, as unsigned values, modulo 0x10000; a chunk has at most
\* 0x2000 bytes, so the 32-bit accumulator holds the sum without overflow.
C11_ChecksumLaw ==
    op.fn = "write_flash" =>
       \A F \in {FramesWritten} :
          \A k \in 1..((Len(F) - 2) \div 3) : ChecksumSent(F, k)

\* write_flash returned Ok after a whole chunk of bytes 0xFF, whose sum is
\* the largest a chunk can have and is more than 0xFFFF.
C11_Witness ==
    /\ op.fn = "write_flash"
    /\ pc = "done"
    /\ rv.ok
    /\ op.size = 8192
    /\ op.data = Full(8192)

----------------------------------------------------------------------------
(* Memory access: exts.rs, XFlash::read32 / write32, CryptoIO for Device.  *)

\* `if get_status()? != 0 { return Err(..) }`
status_zero(status) ==
    IF ~status.ok THEN status
    ELSE IF status.val # 0 THEN PErr("Other", status.p)
    ELSE status

\* A command and its status, if what came before succeeded.
ext_cmd(r, cmd) ==
    IF ~r.ok THEN r ELSE status_zero(get_status(send_cmd(r.p, cmd).p))

\* A 32-bit value written as a frame by hand, if what came before succeeded.
ext_word(r, word) ==
    IF ~r.ok THEN r
    ELSE POk(TRUE, write_all(write_all(r.p, FrameHdr(DataType.ProtocolFlow, 4)),
                             to_le_bytes(word, 4)))

\* exts::read32_ext: the value, from the payload and the status after it.
read32_ext_value(payload, status) ==
    IF ~status.ok THEN status
    ELSE IF Len(payload.val) >= 4
    THEN IF status.val # 0 THEN PErr("Other", status.p)
         ELSE POk(u32_from_le_bytes(SubSeq(payload.val, 1, 4)), status.p)
    ELSE status

\* exts::read32_ext: the payload and the status after it.
read32_ext_payload(payload) ==
    IF ~payload.ok THEN payload
    ELSE read32_ext_value(payload, get_status(payload.p))

\* exts::read32_ext: the data frame after the address.
read32_ext_data(r) == IF ~r.ok THEN r ELSE read32_ext_payload(read_data(r.p))

\* exts::read32_ext
read32_ext(p, addr) ==
    read32_ext_data(
        ext_word(ext_cmd(ext_cmd(POk(TRUE, p), Cmd.DeviceCtrl),
                         Cmd.ExtReadRegister),
                 addr))

\* exts::write32_ext: the status after the value.
write32_ext_status(r) ==
    IF ~r.ok THEN r ELSE status_zero(get_status(r.p))

\* exts::write32_ext
write32_ext(p, addr, value) ==
    write32_ext_status(
        ext_word(ext_word(ext_cmd(ext_cmd(POk(TRUE, p), Cmd.DeviceCtrl),
                                  Cmd.ExtWriteRegister),
                          addr),
                 value))

\* XFlash::read32 without extensions: the value in the response of devctrl.
read32_resp(resp) ==
    IF ~resp.ok THEN resp
    ELSE IF Len(resp.val) < 4 THEN PErr("Other", resp.p)
    ELSE POk(u32_from_le_bytes(SubSeq(resp.val, 1, 4)), resp.p)

\* read32 if it took the route without extensions whatever the latch.
XFlash_read32_unrouted(p, using_exts, addr) ==
    read32_resp(devctrl(p, Cmd.DeviceCtrlReadRegister,
                        <<to_le_bytes(addr, 4)>>))

\* XFlash::read32
XFlash_read32(p, using_exts, addr) ==
    IF using_exts THEN read32_ext(p, addr)
    ELSE read32_resp(devctrl(p, Cmd.DeviceCtrlReadRegister,
                             <<to_le_bytes(addr, 4)>>))

\* XFlash::write32
XFlash_write32(p, using_exts, addr, value) ==
    IF using_exts THEN write32_ext(p, addr, value)
    ELSE devctrl(p, Cmd.SetRegisterValue,
                 <<to_le_bytes(addr, 4) \o to_le_bytes(value, 4)>>)

\* <Device as CryptoIO>::read32: the value, or 0 when the protocol failed.
CryptoIO_read32_result(r) == IF r.ok THEN r ELSE POk(0, r.p)

\* <Device as CryptoIO>::read32
CryptoIO_read32(p, protocol, using_exts, addr) ==
    IF protocol
    THEN CryptoIO_read32_result(XFlash_read32(p, using_exts, addr))
    ELSE POk(0, p)

\* <Device as CryptoIO>::write32: a failure of the protocol is logged.
CryptoIO_write32_result(r) == POk(TRUE, r.p)

\* <Device as CryptoIO>::write32
CryptoIO_write32(p, protocol, using_exts, addr, value) ==
    IF protocol
    THEN CryptoIO_write32_result(XFlash_write32(p, using_exts, addr, value))
    ELSE POk(TRUE, p)

\* How many register accesses the device refuses during one operation.
MaxRefusals == 1

\* The device refuses a register access with a status other than zero.
RefusedRx == Rx(Frame(to_le_bytes(49153, 4)), "TimedOut")

\* The device serves a register access, with the value RegisterValue where
\* it reads.
ServedRx(using_exts, reading) ==
    LET ok == Frame(to_le_bytes(0, 4))
        value == Frame(to_le_bytes(RegisterValue, 4)) IN
    IF using_exts /\ reading THEN Rx(ok \o ok \o value \o ok, "TimedOut")
    ELSE Rx(ok \o ok \o ok, "TimedOut")

\* What the device delivers to a register access after `refusals` refusals.
RegisterRx(using_exts, reading, refusals) ==
    {ServedRx(using_exts, reading)}
      \cup (IF refusals < MaxRefusals THEN {RefusedRx} ELSE {})

\* The refusals counted after the device delivered rx.
Refusals(l, rx) ==
    [l EXCEPT !.refusals = @ + (IF rx = RefusedRx THEN 1 ELSE 0)]

\* SEJ_BASE and the two registers of the model's SEJ block.
sej_base == 268476416
SejRegs == [con |-> sej_base + 4, out |-> sej_base + 80]

\* The transforms on the SEJ block (crypto/sej.rs): the host programs the
\* block with write32.
Do_sej_seccfg_hw ==
    /\ pc = "sej_seccfg_hw"
    /\ \E rx \in RegisterRx(loc.using_exts, FALSE, loc.refusals) :
         LET r == CryptoIO_write32(rx, loc.protocol, loc.using_exts,
                                   SejRegs.con,
                                   KeySelector[loc.sej.algo]
                                       + (IF loc.sej.encrypt THEN 256 ELSE 0))
         IN  /\ Consumed(r)
             /\ io' = io \o r.p.ev
             /\ pc' = "sej_seccfg_hw.out"
             /\ loc' = Refusals(loc, rx)
    /\ UNCHANGED <<op, stack, rv>>

\* The transforms on the SEJ block: the host takes the result with read32.
Do_sej_seccfg_hw_out ==
    /\ pc = "sej_seccfg_hw.out"
    /\ \E rx \in RegisterRx(loc.using_exts, TRUE, loc.refusals) :
         LET r == CryptoIO_read32(rx, loc.protocol, loc.using_exts,
                                  SejRegs.out) IN
         /\ Consumed(r)
         /\ io' = io \o r.p.ev
         /\ loc' = Refusals(loc, rx)
         /\ Return(Ok(sej_seccfg_hw(loc.sej.algo, loc.sej.data,
                                    loc.sej.encrypt, r.val)))
    /\ UNCHANGED op

\* The transforms of SEJCrypto as the record of the transforms run names
\* them: decrypting a sealed hash, and sealing one.
SejDecrypt == [SW |-> "sej_seccfg_sw(false)", HW |-> "sej_seccfg_hw(false)", HWv3 |-> "sej_seccfg_hw_v3(false)", HWv4 |-> "sej_seccfg_hw_v4(false)"]
SejEncrypt == [SW |-> "sej_seccfg_sw(true)", HW |-> "sej_seccfg_hw(true)", HWv3 |-> "sej_seccfg_hw_v3(true)", HWv4 |-> "sej_seccfg_hw_v4(true)"]

\* The record of the transforms run, with one more.
Transformed(l, algo, encrypt) ==
    [l EXCEPT !.transforms =
        Append(@, IF encrypt THEN SejEncrypt[algo] ELSE SejDecrypt[algo])]

\* The call of a transform of the SEJ block.
SejCall(l, algo, data, encrypt, ret) ==
    /\ loc' = [Transformed(l, algo, encrypt) EXCEPT
                  !.sej = [algo |-> algo, data |-> data, encrypt |-> encrypt]]
    /\ Call("sej_seccfg_hw", ret)

\* SecCfgV4::parse up to the search for the algorithm.
Do_parse ==
    /\ pc = "SecCfgV4::parse"
    /\ \E h \in {parse_header(loc.seccfg_raw, Len(loc.seccfg_raw))} :
         IF h.kind = "panic" THEN Abort /\ loc' = loc
         ELSE IF ~h.ok THEN Return(h) /\ loc' = loc
         ELSE IF h.val.hash = h.val.calculated_hash
         THEN Return(Ok([h.val.cfg EXCEPT !.algo = <<"None">>])) /\ loc' = loc
         ELSE /\ loc' = [loc EXCEPT !.parse = [cfg |-> h.val.cfg,
                                               hash |-> h.val.hash,
                                               calculated_hash |->
                                                   h.val.calculated_hash,
                                               i |-> 1]]
              /\ pc' = "SecCfgV4::parse.algo"
              /\ UNCHANGED <<stack, rv>>
    /\ UNCHANGED <<op, io>>

\* SecCfgV4::parse: the next algorithm of the search.
Do_parse_algo ==
    /\ pc = "SecCfgV4::parse.algo"
    /\ IF loc.parse.i > Len(SejAlgos)
       THEN Return(Ok(loc.parse.cfg)) /\ loc' = loc
       ELSE IF SejAlgos[loc.parse.i] = "SW"
       THEN IF loc.parse.calculated_hash = sej_seccfg_sw(loc.parse.hash, FALSE)
            THEN /\ Return(Ok([loc.parse.cfg EXCEPT !.algo = <<"SW">>]))
                 /\ loc' = Transformed(loc, "SW", FALSE)
            ELSE /\ loc' = [Transformed(loc, "SW", FALSE) EXCEPT
                               !.parse.i = @ + 1]
                 /\ UNCHANGED <<pc, stack, rv>>
       ELSE SejCall(loc, SejAlgos[loc.parse.i], loc.parse.hash, FALSE,
                    "SecCfgV4::parse.dec_hash")
    /\ UNCHANGED <<op, io>>

\* SecCfgV4::parse: the comparison with the output of a transform.
Do_parse_dec_hash ==
    /\ pc = "SecCfgV4::parse.dec_hash"
    /\ IF loc.parse.calculated_hash = rv.val
       THEN /\ Return(Ok([loc.parse.cfg EXCEPT
                             !.algo = <<SejAlgos[loc.parse.i]>>]))
            /\ loc' = loc
       ELSE /\ loc' = [loc EXCEPT !.parse.i = @ + 1]
            /\ pc' = "SecCfgV4::parse.algo"
            /\ UNCHANGED <<stack, rv>>
    /\ UNCHANGED <<op, io>>

\* SecCfgV4::create up to the sealing of the hash.
Do_create ==
    /\ pc = "SecCfgV4::create"
    /\ \E cfg \in {create_lock(loc.seccfg, loc.lock_flag)} :
         \E hash \in {Sha256(seccfg_header(cfg))} :
            IF cfg.algo = <<"SW">>
            THEN /\ loc' = [Transformed(loc, "SW", TRUE) EXCEPT
                               !.seccfg = cfg]
                 /\ Return(Ok(create_blob(cfg, sej_seccfg_sw(hash, TRUE))))
            ELSE IF cfg.algo \in {<<"HW">>, <<"HWv3">>, <<"HWv4">>}
            THEN SejCall([loc EXCEPT !.seccfg = cfg], cfg.algo[1], hash, TRUE,
                         "SecCfgV4::create.encrypted_hash")
            ELSE /\ loc' = [loc EXCEPT !.seccfg = cfg]
                 /\ Return(Ok(create_blob(cfg, hash)))
    /\ UNCHANGED <<op, io>>

\* SecCfgV4::create from the sealed hash on.
Do_create_encrypted_hash ==
    /\ pc = "SecCfgV4::create.encrypted_hash"
    /\ Return(Ok(create_blob(loc.seccfg, rv.val)))
    /\ UNCHANGED <<op, loc, io>>

----------------------------------------------------------------------------
(* device.rs: the Device.                                                  *)

\* `x?` on the result of the call that returned: the error goes to the
\* caller; `go` is what follows otherwise.
Propagate(go) == IF ~rv.ok THEN Return(Err(rv.kind)) ELSE go

\* dev_info.partitions.iter().find(|p| p.name == name), as a set of at
\* most one element
RECURSIVE find_partition(_, _, _)
find_partition(partitions, name, i) ==
    IF i > Len(partitions) THEN {}
    ELSE IF partitions[i].name = name THEN {partitions[i]}
    ELSE find_partition(partitions, name, i + 1)

\* The call of a flash operation by read_partition and write_partition: its
\* arguments and its fresh locals. The guard dev_info of the DeviceInfo mutex,
\* taken for the lookup, is alive during the call: partition borrows from it.
FlashCall(callee, ret, addr, size, data) ==
    /\ op' = [op EXCEPT !.addr = addr, !.size = size, !.data = data]
    /\ loc' = [loc EXCEPT !.buffer = <<>>, !.bytes_read = 0, !.pos = 0,
                          !.calls = Append(@, callee),
                          !.dev_info = TRUE]
    /\ Call(callee, ret)

\* Device::enter_da_mode up to upload_da.
Do_enter_da_mode ==
    /\ pc = "enter_da_mode"
    /\ IF ~loc.connected THEN Return(Err("NotConnected")) /\ loc' = loc
       ELSE IF ~loc.protocol THEN Return(Err("Other")) /\ loc' = loc
       ELSE /\ Call("upload_da", "enter_da_mode.uploaded")
            /\ loc' = [loc EXCEPT !.calls = Append(@, "upload_da")]
    /\ UNCHANGED <<op, io>>

\* Device::enter_da_mode from the result of upload_da to read_flash.
Do_enter_da_mode_uploaded ==
    /\ pc = "enter_da_mode.uploaded"
    /\ IF ~rv.ok THEN Return(Err(rv.kind)) /\ UNCHANGED <<op, loc>>
       ELSE \E l \in {[loc EXCEPT !.connection_type = "Da",
                                  !.buffer = <<>>, !.bytes_read = 0,
                                  !.pos = 0,
                                  !.calls = Append(@, "read_flash")]} :
              /\ op' = [op EXCEPT !.addr = 0, !.size = 32768]
              /\ loc' = l
              /\ Call("read_flash", "enter_da_mode.pgpt")
    /\ UNCHANGED io

\* Device::enter_da_mode from the result of read_flash on. The guard of the
\* DeviceInfo mutex lives for the two assignments only: loc.dev_info is FALSE
\* before and after the step.
Do_enter_da_mode_pgpt ==
    /\ pc = "enter_da_mode.pgpt"
    /\ IF ~rv.ok THEN Return(Err(rv.kind)) /\ loc' = loc
       ELSE \E partitions \in {parse_gpt(rv.val, Len(rv.val))} :
              IF partitions.kind = "panic" THEN Abort /\ loc' = loc
              ELSE IF ~partitions.ok
              THEN Return(Err(partitions.kind)) /\ loc' = loc
              ELSE /\ loc' = [loc EXCEPT !.partitions = partitions.val,
                                         !.storage = "Emmc"]
                   /\ Return(Ok(TRUE))
    /\ UNCHANGED <<op, io>>

\* The start of the two operations if they entered DA mode whatever the
\* connection type.
EnsureDaMode_always(next) ==
    IF ~loc.protocol THEN Return(Err("Other"))
    ELSE Call("enter_da_mode", next)

\* The start of read_partition and write_partition, up to enter_da_mode.
EnsureDaMode(next) ==
    IF ~loc.protocol THEN Return(Err("Other"))
    ELSE IF loc.connection_type # "Da" THEN Call("enter_da_mode", next)
    ELSE pc' = next /\ rv' = Ok(TRUE) /\ stack' = stack

\* Device::read_partition up to enter_da_mode.
Do_read_partition ==
    /\ pc = "read_partition"
    /\ EnsureDaMode("read_partition.lookup")
    /\ UNCHANGED <<op, loc, io>>

\* Device::read_partition from the lookup of the partition to read_flash.
Do_read_partition_lookup ==
    /\ pc = "read_partition.lookup"
    /\ Propagate(
          \E found \in {find_partition(loc.partitions, op.name, 1)} :
             IF found = {} THEN Return(Err("NotFound")) /\ UNCHANGED <<op, loc>>
             ELSE \E partition \in found :
                    FlashCall("read_flash", "read_partition.done",
                              partition.address, partition.size, op.data))
    /\ (~rv.ok) => UNCHANGED <<op, loc>>
    /\ UNCHANGED io

\* Device::read_partition: the result of read_flash is its result; the guard
\* dev_info is dropped at the end of the function.
Do_read_partition_done ==
    /\ pc = "read_partition.done"
    /\ Return(rv)
    /\ loc' = [loc EXCEPT !.dev_info = FALSE]
    /\ UNCHANGED <<op, io>>

\* Device::write_partition up to enter_da_mode.
Do_write_partition ==
    /\ pc = "write_partition"
    /\ EnsureDaMode("write_partition.lookup")
    /\ UNCHANGED <<op, loc, io>>

\* write_partition if it took data of any length.
write_partition_fits_any(data_len, partition) == TRUE

\* Device::write_partition: the data is not longer than the partition.
write_partition_fits(data_len, partition) == ~(data_len > partition.size)

\* Device::write_partition from the lookup of the partition to write_flash.
Do_write_partition_lookup ==
    /\ pc = "write_partition.lookup"
    /\ Propagate(
          \E found \in {find_partition(loc.partitions, op.name, 1)} :
             IF found = {} THEN Return(Err("NotFound")) /\ UNCHANGED <<op, loc>>
             ELSE \E partition \in found :
                    IF ~write_partition_fits(Len(op.data), partition)
                    THEN Return(Err("InvalidInput")) /\ UNCHANGED <<op, loc>>
                    ELSE FlashCall("write_flash", "write_partition.done",
                                   partition.address, Len(op.data), op.data))
    /\ (~rv.ok) => UNCHANGED <<op, loc>>
    /\ UNCHANGED io

\* Device::write_partition: the result of write_flash is its result; the guard
\* dev_info is dropped at the end of the function.
Do_write_partition_done ==
    /\ pc = "write_partition.done"
    /\ Return(rv)
    /\ loc' = [loc EXCEPT !.dev_info = FALSE]
    /\ UNCHANGED <<op, io>>

\* Option<Vec<u8>>: None
None == [ok |-> FALSE, val |-> 0, kind |-> "None"]

\* Device::set_seccfg_lock_state up to enter_da_mode.
Do_set_seccfg_lock_state ==
    /\ pc = "set_seccfg_lock_state"
    /\ IF ~loc.protocol THEN Return(None)
       ELSE IF loc.connection_type # "Da"
       THEN Call("enter_da_mode", "set_seccfg_lock_state.read")
       ELSE /\ pc' = "set_seccfg_lock_state.read"
            /\ rv' = Ok(TRUE)
            /\ stack' = stack
    /\ UNCHANGED <<op, loc, io>>

\* Device::set_seccfg_lock_state: the read of the partition seccfg.
Do_set_seccfg_lock_state_read ==
    /\ pc = "set_seccfg_lock_state.read"
    /\ IF ~rv.ok THEN Return(None) /\ UNCHANGED <<op, loc>>
       ELSE /\ op' = [op EXCEPT !.name = Name.seccfg]
            /\ loc' = [loc EXCEPT !.calls = Append(@, "read_partition")]
            /\ Call("read_partition", "set_seccfg_lock_state.parse")
    /\ UNCHANGED io

\* Device::set_seccfg_lock_state: the parse of what was read.
Do_set_seccfg_lock_state_parse ==
    /\ pc = "set_seccfg_lock_state.parse"
    /\ IF ~rv.ok THEN Return(None) /\ loc' = loc
       ELSE /\ loc' = [loc EXCEPT !.seccfg_raw = rv.val,
                                  !.calls = Append(@, "parse")]
            /\ Call("SecCfgV4::parse", "set_seccfg_lock_state.create")
    /\ UNCHANGED <<op, io>>

\* Device::set_seccfg_lock_state: the create with the requested flag.
Do_set_seccfg_lock_state_create ==
    /\ pc = "set_seccfg_lock_state.create"
    /\ IF ~rv.ok THEN Return(None) /\ loc' = loc
       ELSE /\ loc' = [loc EXCEPT !.seccfg = rv.val,
                                  !.lock_flag = op.lock_state,
                                  !.calls = Append(@, "create")]
            /\ Call("SecCfgV4::create", "set_seccfg_lock_state.write")
    /\ UNCHANGED <<op, io>>

\* Device::set_seccfg_lock_state: the write of the partition seccfg.
Do_set_seccfg_lock_state_write ==
    /\ pc = "set_seccfg_lock_state.write"
    /\ op' = [op EXCEPT !.name = Name.seccfg, !.data = rv.val]
    /\ loc' = [loc EXCEPT !.new_seccfg = rv.val,
                          !.calls = Append(@, "write_partition")]
    /\ Call("write_partition", "set_seccfg_lock_state.done")
    /\ UNCHANGED io

\* set_seccfg_lock_state if it returned the new bytes whatever the write
\* did.
set_seccfg_lock_state_result_any(written, new_seccfg) == Ok(new_seccfg)

\* Device::set_seccfg_lock_state: `.ok()?` on the write, Some(new_seccfg)
set_seccfg_lock_state_result(written, new_seccfg) ==
    IF ~written.ok THEN None ELSE Ok(new_seccfg)

\* Device::set_seccfg_lock_state: Some(new_seccfg) if the write succeeded.
Do_set_seccfg_lock_state_done ==
    /\ pc = "set_seccfg_lock_state.done"
    /\ Return(set_seccfg_lock_state_result(rv, loc.new_seccfg))
    /\ UNCHANGED <<op, loc, io>>

(* The devices, the operations and their arguments.                        *)

\* The partitions cached from the table with seccfg and boot.
CachedPartitions ==
    <<Partition(Name.boot, 1024, 32768), Partition(Name.seccfg, 512, 40960)>>

\* The lengths of the data written to a partition: none, a few bytes, the
\* size of seccfg (a sector) and of boot (two sectors), and more than each.
MaxExcess == 3
PartitionDataLens == {0, MaxExcess, 512, 512 + MaxExcess, 1024, 1024 + MaxExcess}

\* A Device after init: with a DA protocol or without one; on a port in
\* preloader mode, on a port already in DA mode, or after enter_da_mode.
Devices ==
    {[connected |-> TRUE, protocol |-> p, connection_type |-> c[1],
      partitions |-> c[2], storage |-> c[3], using_exts |-> c[4]] :
        p \in BOOLEAN,
        c \in {<<"Preloader", <<>>, "Unknown", FALSE>>,
               <<"Da", <<>>, "Unknown", FALSE>>,
               <<"Da", CachedPartitions, "Emmc", TRUE>>}}

\* The calls of the operations of Device.
DeviceCalls ==
    {[fn |-> "enter_da_mode", name |-> <<>>, data |-> <<>>,
      lock_state |-> "Lock"]}
      \cup {[fn |-> "read_partition", name |-> n, data |-> <<>>,
             lock_state |-> "Lock"] :
              n \in {Name.seccfg, Name.boot, Name.nvram}}
      \cup {[fn |-> "write_partition", name |-> n, data |-> Image(k),
             lock_state |-> "Lock"] :
              n \in {Name.seccfg, Name.boot, Name.nvram},
              k \in PartitionDataLens}
      \cup {[fn |-> "set_seccfg_lock_state", name |-> <<>>, data |-> <<>>,
             lock_state |-> f] : f \in LockFlag}

\* The calls made on a Device that is not in DA mode yet, which bring the
\* DA up first.
ColdCalls ==
    {c \in DeviceCalls :
        \/ c.fn = "enter_da_mode"
        \/ c.fn = "read_partition" /\ c.name = Name.boot
        \/ c.fn = "write_partition" /\ c.name = Name.seccfg
              /\ Len(c.data) = MaxExcess}

InitDevice ==
    /\ \E c \in DeviceCalls, d \in Devices :
         /\ (d.connection_type # "Da" /\ d.protocol) => c \in ColdCalls
         /\ op = [fn |-> c.fn, name |-> c.name, data |-> c.data,
                  lock_state |-> c.lock_state,
                  da |-> [regions |-> <<DAEntryRegion(0, 0, <<>>, 0),
                                        DA1Region, DA2Region>>],
                  addr |-> 0, size |-> 0]
         /\ loc = [connected |-> d.connected, protocol |-> d.protocol,
                   connection_type |-> d.connection_type,
                   partitions |-> d.partitions, storage |-> d.storage,
                   using_exts |-> d.using_exts, calls |-> <<>>,
                   da1 |-> DA1Region, addr |-> 0, data |-> <<>>,
                   status |-> <<>>, buffer |-> <<>>, bytes_read |-> 0,
                   pos |-> 0, seccfg_raw |-> <<>>, seccfg |-> SecCfgV4_new,
                   lock_flag |-> c.lock_state, new_seccfg |-> <<>>,
                   parse |-> <<>>, sej |-> <<>>, refusals |-> 0,
                   transforms |-> <<>>,
                   dev_info |-> FALSE]
    /\ pc = op.fn
    /\ stack = <<>>
    /\ rv = NoRet
    /\ io = <<>>

NextDevice ==
    \/ Do_set_seccfg_lock_state
    \/ Do_set_seccfg_lock_state_read
    \/ Do_set_seccfg_lock_state_parse
    \/ Do_set_seccfg_lock_state_create
    \/ Do_set_seccfg_lock_state_write
    \/ Do_set_seccfg_lock_state_done
    \/ Do_parse
    \/ Do_parse_algo
    \/ Do_parse_dec_hash
    \/ Do_create
    \/ Do_create_encrypted_hash
    \/ Do_sej_seccfg_hw
    \/ Do_sej_seccfg_hw_out
    \/ Do_enter_da_mode
    \/ Do_enter_da_mode_uploaded
    \/ Do_enter_da_mode_pgpt
    \/ Do_read_partition
    \/ Do_read_partition_lookup
    \/ Do_read_partition_done
    \/ Do_write_partition
    \/ Do_write_partition_lookup
    \/ Do_write_partition_done
    \/ Do_upload_stage1
    \/ Do_upload_stage1_jump_da
    \/ Do_upload_stage1_sync_byte
    \/ Do_upload_stage1_setup_env
    \/ Do_upload_stage1_setup_hw
    \/ Do_upload_stage1_sync_frame
    \/ Do_boot_to
    \/ Do_boot_to_image
    \/ Do_boot_to_sync
    \/ Do_exts_boot_extensions
    \/ Do_exts_boot_extensions_ack
    \/ Do_boot_extensions
    \/ Do_boot_extensions_latch
    \/ Do_upload_da
    \/ Do_upload_da_stage1
    \/ Do_upload_da_boot_to
    \/ Do_upload_da_exts
    \/ Do_read_flash
    \/ Do_read_flash_params
    \/ Do_read_flash_loop
    \/ Do_write_flash
    \/ Do_write_flash_params
    \/ Do_write_flash_loop
    \/ Do_write_flash_status

SpecDevice == InitDevice /\ [][NextDevice]_vars

----------------------------------------------------------------------------
(* Properties of the partition operations.                                 *)

\* Where in the history a frame carrying the command `cmd` was written.
CommandsSent(cmd) ==
    {i \in 2..Len(io) :
        io[i - 1] = Wr(WireHdr(4)) /\ io[i] = Wr(to_le_bytes(cmd, 4))}

\* The functions called so far.
Called == {loc.calls[i] : i \in 1..Len(loc.calls)}

\* The operation got as far as looking its partition up: the Device has a
\* protocol and was in DA mode when called, or enter_da_mode succeeded.
LookedUp ==
    /\ pc = "done"
    /\ loc.protocol
    /\ loc.connection_type = "Da"
    /\ "upload_da" \in Called => loc.storage = "Emmc"

\* The named partition is not in the list, or the data is longer than it.
Unwritable(found) ==
    found = {} \/ \E partition \in found : Len(op.data) > partition.size

\* C12: write_partition with data longer than the named partition, or with
\* a name that is not in the cached partition list, returns an error (of
\* kind NotFound for the unknown name) and sends no WriteData command and
\* no data: it calls no flash operation, and on a Device already in DA
\* mode nothing at all goes over the port.
C12_WriteRejected ==
    op.fn = "write_partition" =>
       \A found \in {find_partition(loc.partitions, op.name, 1)} :
          Unwritable(found) =>
             /\ CommandsSent(Cmd.WriteData) = {}
             /\ "write_flash" \notin Called
             /\ "upload_da" \notin Called => io = <<>>
             /\ "upload_da" \in Called =>
                   Cardinality(CommandsSent(Cmd.ReadData)) <= 1
             /\ pc = "done" => ~rv.ok
             /\ LookedUp =>
                   rv.kind = (IF found = {} THEN "NotFound"
                              ELSE "InvalidInput")

\* write_partition was refused for data longer than the partition seccfg.
C12_Witness ==
    /\ op.fn = "write_partition"
    /\ pc = "done"
    /\ op.name = Name.seccfg
    /\ find_partition(loc.partitions, op.name, 1) # {}
    /\ Len(op.data) > 512
    /\ rv.kind = "InvalidInput"

\* write_partition returned Ok on a Device that was in DA mode when called,
\* so that the history holds the frames of its write_flash alone.
WarmWriteDone ==
    /\ op.fn = "write_partition"
    /\ pc = "done"
    /\ rv.ok
    /\ "upload_da" \notin Called

\* C13: for data not longer than the partition, write_partition writes the
\* payload normalised to the partition's size: the device receives
\* partition.size bytes, the data followed by zero padding.
C13_PaddedToPartition ==
    WarmWriteDone =>
       \A F \in {FramesWritten} :
          \A partition \in find_partition(loc.partitions, op.name, 1) :
             /\ Len(op.data) <= partition.size
             /\ ChunkPayload(F, 1)
                   = PadTo(op.data, Len(op.data), partition.size)

\* write_partition returned Ok for data shorter than its partition.
C13_Witness ==
    /\ WarmWriteDone
    /\ \E partition \in find_partition(loc.partitions, op.name, 1) :
          0 < Len(op.data) /\ Len(op.data) < partition.size

----------------------------------------------------------------------------
(* Properties of set_seccfg_lock_state.                                    *)

\* The calls of a whole set_seccfg_lock_state on a Device in DA mode.
SetSeccfgCalls ==
    <<"read_partition", "read_flash", "parse", "create", "write_partition",
      "write_flash">>

\* The last n events of the history.
LastEvents(n) ==
    IF n > Len(io) THEN <<>> ELSE SubSeq(io, Len(io) - n + 1, Len(io))

\* The lock states create gives the record for the flag, as header bytes.
LockWords(flag) ==
    IF flag = "Lock" THEN to_le_bytes(1, 4) \o to_le_bytes(1, 4)
    ELSE to_le_bytes(3, 4) \o to_le_bytes(0, 4)

C15_RegisterFailureSurfaced ==
    (op.fn = "set_seccfg_lock_state" /\ loc.refusals > 0) =>
       /\ "write_partition" \notin Called
       /\ pc = "done" => rv = None

\* The device refused a register access of the SEJ transforms and
\* set_seccfg_lock_state wrote the partition seccfg and returned the bytes.
C15_Witness ==
    /\ op.fn = "set_seccfg_lock_state"
    /\ loc.refusals > 0
    /\ "write_flash" \in Called
    /\ CommandsSent(Cmd.WriteData) # {}
    /\ pc = "done"
    /\ rv.ok

----------------------------------------------------------------------------
(* seccfg.rs: the codec applied to blobs and records.                      *)

\* The blob of scenario S5: the header with seccfg_size 0x14 and the lock
\* states 1 and 1, then 32 zero bytes; 60 bytes.
S5Blob == seccfg_header(SecCfgV4(4, 20, 1, 1, 0, <<>>)) \o Zeros(32)

\* The blobs given to parse: what the storage may hold, the blob of S5,
\* records sealed by the other transforms of the SEJ block, and a record
\* whose seccfg_size puts the hash 32 bytes after the header.
CodecBlobs ==
    SeccfgImages
      \cup {S5Blob,
            SealedBlob(SecCfgV4(4, 60, 3, 0, 0, <<"HWv3">>)),
            SealedBlob(SecCfgV4(4, 60, 1, 1, 0, <<"HWv4">>)),
            SealedBlob(SecCfgV4(4, 92, 1, 1, 0, <<"None">>))}

\* The records given to create: the one SecCfgV4::new makes, and records
\* as parse returns them, with lock states of every kind.
CodecRecords ==
    {SecCfgV4_new}
      \cup {SecCfgV4(4, 60, l[1], l[2], 0, a) :
               l \in {<<0, 0>>, <<1, 1>>, <<3, 0>>, <<4, 1>>},
               a \in {<<>>, <<"None">>, <<"SW">>, <<"HW">>}}

\* The applications of the codec: parse alone; parse, create, parse; and
\* create, parse.
CodecCalls ==
    {[fn |-> "parse", data |-> b, cfg |-> SecCfgV4_new, lock_state |-> "Lock"] :
        b \in CodecBlobs}
      \cup {[fn |-> "parse_create_parse", data |-> b, cfg |-> SecCfgV4_new,
             lock_state |-> f] : b \in CodecBlobs, f \in LockFlag}
      \cup {[fn |-> "create_parse", data |-> <<>>, cfg |-> c,
             lock_state |-> f] : c \in CodecRecords, f \in LockFlag}

\* The codec is applied.
Do_codec ==
    /\ pc = "codec"
    /\ IF op.fn = "parse"
       THEN /\ loc' = [loc EXCEPT !.seccfg_raw = op.data]
            /\ pc' = "SecCfgV4::parse"
            /\ UNCHANGED <<stack, rv>>
       ELSE IF op.fn = "parse_create_parse"
       THEN /\ loc' = [loc EXCEPT !.seccfg_raw = op.data,
                                  !.calls = Append(@, "parse")]
            /\ Call("SecCfgV4::parse", "codec.create")
       ELSE /\ loc' = [loc EXCEPT !.seccfg = op.cfg,
                                  !.lock_flag = op.lock_state,
                                  !.calls = Append(@, "create")]
            /\ Call("SecCfgV4::create", "codec.parse")
    /\ UNCHANGED <<op, io>>

\* create on the record parse returned.
Do_codec_create ==
    /\ pc = "codec.create"
    /\ IF ~rv.ok THEN Return(rv) /\ loc' = loc
       ELSE /\ loc' = [loc EXCEPT !.seccfg = rv.val,
                                  !.lock_flag = op.lock_state,
                                  !.calls = Append(@, "create")]
            /\ Call("SecCfgV4::create", "codec.parse")
    /\ UNCHANGED <<op, io>>

\* parse on the blob create returned.
Do_codec_parse ==
    /\ pc = "codec.parse"
    /\ loc' = [loc EXCEPT !.new_seccfg = rv.val, !.seccfg_raw = rv.val,
                          !.calls = Append(@, "parse")]
    /\ Call("SecCfgV4::parse", "codec.done")
    /\ UNCHANGED <<op, io>>

\* The record of the last parse is the result.
Do_codec_done ==
    /\ pc = "codec.done"
    /\ Return(rv)
    /\ UNCHANGED <<op, loc, io>>

InitSecCfg ==
    /\ \E c \in CodecCalls, exts \in BOOLEAN :
         /\ op = c
         /\ loc = [connected |-> TRUE, protocol |-> TRUE,
                   connection_type |-> "Da",
                   partitions |-> CachedPartitions, storage |-> "Emmc",
                   using_exts |-> exts, calls |-> <<>>,
                   da1 |-> DA1Region, addr |-> 0, data |-> <<>>,
                   status |-> <<>>, buffer |-> <<>>, bytes_read |-> 0,
                   pos |-> 0, seccfg_raw |-> <<>>, seccfg |-> SecCfgV4_new,
                   lock_flag |-> c.lock_state, new_seccfg |-> <<>>,
                   parse |-> <<>>, sej |-> <<>>, refusals |-> 0,
                   transforms |-> <<>>,
                   dev_info |-> FALSE]
    /\ pc = "codec"
    /\ stack = <<>>
    /\ rv = NoRet
    /\ io = <<>>

NextSecCfg ==
    \/ Do_codec
    \/ Do_codec_create
    \/ Do_codec_parse
    \/ Do_codec_done
    \/ Do_parse
    \/ Do_parse_algo
    \/ Do_parse_dec_hash
    \/ Do_create
    \/ Do_create_encrypted_hash
    \/ Do_sej_seccfg_hw
    \/ Do_sej_seccfg_hw_out

SpecSecCfg == InitSecCfg /\ [][NextSecCfg]_vars

----------------------------------------------------------------------------
(* Properties of the seccfg codec.                                         *)

\* The lock states create gives a record for the flag.
LockStates(flag) == IF flag = "Lock" THEN <<1, 1>> ELSE <<3, 0>>

\* parse was applied to the blob create returned, and the application of
\* the codec ended.
CreatedAndParsed ==
    /\ op.fn \in {"create_parse", "parse_create_parse"}
    /\ "create" \in Called
    /\ pc = "done"

\* C16: the parse of the blob create makes with Unlock has lock_state 3 and
\* critical_lock_state 0, and with Lock has 1 and 1, whatever the lock
\* fields of the record were before, the record SecCfgV4::new makes
\* included.
C16_LockSemantics ==
    CreatedAndParsed =>
       /\ rv.ok
       /\ <<rv.val.lock_state, rv.val.critical_lock_state>>
             = LockStates(op.lock_state)

\* create was given the record SecCfgV4::new makes and the flag Unlock, and
\* the parse of the blob it returned panicked.
C16_Witness ==
    /\ op.fn = "create_parse"
    /\ op.cfg = SecCfgV4_new
    /\ op.lock_state = "Unlock"
    /\ pc = "done"
    /\ rv = Panic
    /\ SubSeq(loc.new_seccfg, 13, 20) = LockWords("Unlock")

\* parse accepted the blob and detected its algorithm, create was given the
\* record with the flag the blob already has, the created blob was parsed,
\* and the device served every register access.
RoundTripped ==
    /\ op.fn = "parse_create_parse"
    /\ "create" \in Called
    /\ pc = "done"
    /\ loc.refusals = 0
    /\ loc.seccfg.algo # <<>>
    /\ SubSeq(op.data, 13, 20) = LockWords(op.lock_state)

\* The first n bytes of both blobs are the same.
SameUpTo(a, b, n) == Len(a) >= n /\ Len(b) >= n /\ SubSeq(a, 1, n) = SubSeq(b, 1, n)

\* C17: for a valid blob b whose algorithm parse detects, create on the
\* parsed record with the same lock flag reproduces b[0..seccfg_size] when
\* the algorithm is None; for the other algorithms the header bytes and
\* the length are those of b and the parse of the created blob detects the
\* same algorithm.
C17_RoundTrip ==
    RoundTripped =>
       IF loc.seccfg.algo = <<"None">>
       THEN SameUpTo(loc.new_seccfg, op.data, loc.seccfg.seccfg_size)
       ELSE /\ SameUpTo(loc.new_seccfg, op.data, 28)
            /\ Len(loc.new_seccfg) = Len(op.data)
            /\ rv.ok
            /\ rv.val.algo = loc.seccfg.algo

\* parse accepted a blob whose seccfg_size is 92 with the algorithm None,
\* and create returned a blob that differs from it below seccfg_size.
C17_Witness ==
    /\ RoundTripped
    /\ loc.seccfg.algo = <<"None">>
    /\ loc.seccfg.seccfg_size = 92
    /\ SameUpTo(loc.new_seccfg, op.data, 28)
    /\ ~SameUpTo(loc.new_seccfg, op.data, 92)

\* parse was applied to the blob of scenario S5 and ended.
S5Parsed == op.fn = "parse" /\ op.data = S5Blob /\ pc = "done"

\* C18: scenario S5: the parse of the 60-byte blob with seccfg_size 0x14
\* and the lock states 1 and 1 returns a record with lock_state 1 and
\* critical_lock_state 1; the hash position seccfg_size - 32 neither
\* underflows nor aborts the parse.
C18_S5Parse ==
    S5Parsed =>
       /\ rv # Panic
       /\ rv.ok
       /\ rv.val.lock_state = 1
       /\ rv.val.critical_lock_state = 1

\* The parse of the blob of S5 returned the error for data that is too
\* short, and the parse of the same record held in a partition of 512
\* bytes panics at the hash position.
C18_Witness ==
    /\ S5Parsed
    /\ Len(op.data) = 60
    /\ rv = Err("InvalidData")
    /\ parse_header(S5Blob \o Zeros(452), 512) = Panic

----------------------------------------------------------------------------
(* xflash/mod.rs: a frame written by send or send_data, given to read_data *)
(* or get_status.                                                          *)

\* The values given to send and the payloads given to send_data: statuses,
\* the magic itself, and payloads of 0, 1, 2, 4, 8 and 65 bytes.
SendWords == {0, 1, 49153, Cmd.SyncSignal, Cmd.Magic}
SendDatas ==
    {<<>>, <<7>>, <<1, 2>>, <<1, 2, 3, 4>>, to_le_bytes(Cmd.Magic, 4),
     <<1, 2, 3, 4, 5, 6, 7, 8>>, [i \in 1..65 |-> i]}

\* The magics a header may carry: the magic, zero, and the magic with its
\* last byte changed.
HdrMagics == {Cmd.Magic, 0, Cmd.Magic + 16777216}

\* The payload of the frame the call writes.
PayloadOf(c) == IF c.fn = "send" THEN to_le_bytes(c.word, 4) ELSE c.data

\* The lengths a header may carry for a payload of n bytes.
HdrLens(n) == {n, n + 1} \cup (IF n > 0 THEN {n - 1} ELSE {})

\* The frames: the call that writes the frame, the magic and the length
\* its header has when it is read, and the function that reads it.
FrameCalls ==
    UNION {{[fn |-> c.fn, word |-> c.word, data |-> c.data, magic |-> mg,
             length |-> n, decoder |-> d] :
               mg \in HdrMagics, n \in HdrLens(Len(PayloadOf(c))),
               d \in {"read_data", "get_status"}} :
           c \in {[fn |-> "send", word |-> w, data |-> <<>>] : w \in SendWords}
                   \cup {[fn |-> "send_data", word |-> 0, data |-> b] :
                            b \in SendDatas}}

\* The frame with the magic and the length of its header replaced.
WithHeader(frame, magic, length) ==
    to_le_bytes(magic, 4) \o SubSeq(frame, 5, 8) \o to_le_bytes(length, 4)
        \o SubSeq(frame, 13, Len(frame))

\* The frame is written: send, or send_data with the status 0 it waits for.
Do_frame_send ==
    /\ pc = "frame"
    /\ \E r \in {IF op.fn = "send"
                 THEN send(Rx(<<>>, "TimedOut"), op.word, DataType.ProtocolFlow)
                 ELSE send_data(Rx(Frame(to_le_bytes(0, 4)), "TimedOut"),
                                op.data)} :
         /\ Consumed(r)
         /\ r.ok
         /\ io' = io \o r.p.ev
         /\ loc' = [loc EXCEPT !.wire = WithHeader(Written(r.p.ev), op.magic,
                                                   op.length)]
    /\ pc' = "frame.decode"
    /\ UNCHANGED <<op, stack, rv>>

\* The frame is read: read_data or get_status; `left` is what the function
\* did not read.
Do_frame_decode ==
    /\ pc = "frame.decode"
    /\ \E r \in {IF op.decoder = "read_data"
                 THEN read_data(Rx(loc.wire, "TimedOut"))
                 ELSE get_status(Rx(loc.wire, "TimedOut"))} :
         /\ io' = io \o r.p.ev
         /\ loc' = [loc EXCEPT !.left = r.p.bytes]
         /\ Return(ResultOf(r))
    /\ UNCHANGED op

InitFrame ==
    /\ op \in FrameCalls
    /\ loc = [wire |-> <<>>, left |-> <<>>]
    /\ pc = "frame"
    /\ stack = <<>>
    /\ rv = NoRet
    /\ io = <<>>

NextFrame == Do_frame_send \/ Do_frame_decode

SpecFrame == InitFrame /\ [][NextFrame]_vars

----------------------------------------------------------------------------
(* Properties of the frames.                                               *)

\* The header read has the magic and the length of the payload written.
GoodHeader == op.magic = Cmd.Magic /\ op.length = Len(PayloadOf(op))

\* The function gave back the payload: read_data its bytes, get_status the
\* number they are in little-endian.
Recovered ==
    /\ rv.ok
    /\ IF op.decoder = "read_data" THEN rv.val = PayloadOf(op)
       ELSE to_le_bytes(rv.val, 4) = PayloadOf(op)

\* The header was rejected and the payload was left unread.
Rejected ==
    /\ ~rv.ok
    /\ rv.kind = "Other"
    /\ loc.left = SubSeq(loc.wire, 13, Len(loc.wire))
    /\ Len(loc.left) = Len(PayloadOf(op))

\* The frame round trip as stated for both functions: the payload comes
\* back if and only if the header is good, and another magic is rejected.
C19_RoundTripBoth ==
    pc = "done" =>
       /\ Recovered <=> GoodHeader
       /\ op.magic # Cmd.Magic => Rejected

\* C19: a frame written by send or send_data is read back by read_data as
\* the same payload if and only if the magic of the header is 0xFEEEEEFE
\* and its length is the number of payload bytes; get_status gives back the
\* number of a payload of 4 bytes when the header is such, unless the
\* number is the magic, which it reads as 0; a header with another magic
\* is rejected with an error by both and its payload is not read.
C19_RoundTrip ==
    pc = "done" =>
       /\ op.decoder = "read_data" => (Recovered <=> GoodHeader)
       /\ (op.decoder = "get_status" /\ GoodHeader /\ op.length = 4) =>
             IF PayloadOf(op) = to_le_bytes(Cmd.Magic, 4)
             THEN rv = Ok(0)
             ELSE Recovered
       /\ op.magic # Cmd.Magic => Rejected

\* read_data gave back the 65 bytes send_data wrote in two pieces, and
\* this is a state where the magic and the length were those written.
C19_Witness ==
    /\ pc = "done"
    /\ op.fn = "send_data"
    /\ op.decoder = "read_data"
    /\ Len(op.data) = 65
    /\ GoodHeader
    /\ Recovered

----------------------------------------------------------------------------
(* Properties of the order of frames and reads.                            *)

\* The event is the write of a frame header.
IsHdr(e) == e.k = "w" /\ Len(e.b) = 12 /\ SubSeq(e.b, 1, 4) = WireMagic

\* The payload of `need` bytes written from event k on.
RECURSIVE Gather(_, _)
Gather(k, need) ==
    IF need <= 0 \/ k > Len(io) THEN <<>>
    ELSE io[k].b \o Gather(k + 1, need - Len(io[k].b))

\* The payload of the frame whose header is event h.
PayloadAt(h) == Gather(h + 1, u32_from_le_bytes(SubSeq(io[h].b, 9, 12)))

\* The headers written, and those written directly after a write: the
\* frame follows the frame before it with no read between them.
Hdrs == {h \in 1..Len(io) : IsHdr(io[h])}
Pipelined(h) == h > 1 /\ io[h - 1].k = "w"

\* The frame at header h follows, in one of the groups the protocol of the
\* device has, a frame of one write with the payload P.
InGroup(h, P, Q) ==
    \/ P = to_le_bytes(Cmd.SyncSignal, 4)
          /\ Q = to_le_bytes(Cmd.SetupEnvironment, 4)
    \/ P = to_le_bytes(Cmd.SetupEnvironment, 4) /\ Q = env_param
    \/ P = to_le_bytes(Cmd.SetupHwInitParams, 4) /\ Q = hw_param
    \/ /\ Len(P) = 16
       /\ SubSeq(P, 5, 16)
             = <<0, 0, 0, 0>> \o to_le_bytes(Len(Q), 4) \o <<0, 0, 0, 0>>
    \/ /\ P = to_le_bytes(0, 4)
       /\ Len(Q) = 4
       /\ h + 2 <= Len(io)
       /\ IsHdr(io[h + 2])
       /\ Q = to_le_bytes(checksum(PayloadAt(h + 2)), 4)
    \/ /\ h > 4
       /\ IsHdr(io[h - 4])
       /\ io[h - 3].b = to_le_bytes(0, 4)
       /\ P = to_le_bytes(checksum(Q), 4)
    \/ P = to_le_bytes(SejRegs.con, 4) /\ Len(Q) = 4

GroupedAt(h) ==
    /\ h > 2
    /\ IsHdr(io[h - 2])
    /\ InGroup(h, io[h - 1].b, PayloadAt(h))

\* The driver as stated: no frame is written before the reply and the
\* status of the frame before it were read.
C20_NoPipelining == \A h \in Hdrs : ~Pipelined(h)

\* C20: in every operation of the driver a frame is written only after a
\* status or a reply was read since the frame before it, except inside
\* five groups that are written with no read between their frames:
\* SyncSignal, SetupEnvironment and its parameters; SetupHwInitParams and
\* its parameters; the parameters and the image of boot_to; the zero word,
\* the checksum and the chunk of write_flash; the address and the value of
\* write32 with extensions.
C20_Sequential == \A h \in Hdrs : Pipelined(h) => GroupedAt(h)

\* set_seccfg_lock_state ended well: frames were read from the flash,
\* registers were written, the chunk was written after its zero word and
\* checksum, and a status was read after it.
C20_Witness ==
    /\ op.fn = "set_seccfg_lock_state"
    /\ pc = "done"
    /\ rv.ok
    /\ loc.seccfg.algo = <<"HW">>
    /\ CommandsSent(Cmd.WriteData) # {}
    /\ ~C20_NoPipelining

----------------------------------------------------------------------------
(* Properties of the DeviceInfo mutex.                                     *)

\* C21: no port read or write happens while enter_da_mode, read_partition or
\* write_partition holds the lock of DeviceInfo: a step taken while the guard
\* dev_info is alive leaves the log of the port as it was.
C21_NoIoUnderLock == [][loc.dev_info => io' = io]_vars

\* The guard is alive in a warm read_partition or write_partition whose flash
\* operation, its only call, has already used the port.
C21_Witness ==
    /\ loc.dev_info
    /\ pc # "done"
    /\ op.fn \in {"read_partition", "write_partition"}
    /\ loc.calls \in {<<"read_flash">>, <<"write_flash">>}
    /\ io # <<>>

----------------------------------------------------------------------------
(* parse_gpt on its own: a partition table is chosen and parsed.           *)

\* The most entries a table of the model holds.
MaxGptEntries == 2

\* The LBAs of an entry: the 16 sectors from 0x40 to 0x4F, one sector, the
\* first sector, and a reversed pair.
GptLbas == {<<64, 79>>, <<80, 80>>, <<0, 0>>, <<79, 64>>}

\* What an entry of a table says: whether its type GUID is set, and its LBAs.
GptSlots == [used : BOOLEAN, lba : GptLbas]

\* The name of the entry at index i of a table.
GptSlotName(i) ==
    IF i % 3 = 1 THEN Name.boot ELSE IF i % 3 = 2 THEN Name.seccfg
    ELSE Name.nvram

\* The 128 bytes of the entry at index i: an unused entry has a zero type
\* GUID and keeps the rest.
GptSlotBytes(slot, i) ==
    IF slot.used THEN GptEntry(GptSlotName(i), slot.lba[1], slot.lba[2])
    ELSE Zeros(16)
           \o SubSeq(GptEntry(GptSlotName(i), slot.lba[1], slot.lba[2]),
                     17, 128)

\* The tables of up to MaxGptEntries entries.
GptTables == UNION {[1..n -> GptSlots] : n \in 0..MaxGptEntries}

\* The headers: a good one, one without the magic, one with entries of 64
\* bytes.
GptHeaders ==
    {[magic |-> EfiPart, entry_size |-> 128],
     [magic |-> Zeros(8), entry_size |-> 128],
     [magic |-> EfiPart, entry_size |-> 64]}

\* The disk image of a table under a header that announces num_entries
\* entries.
GptDisk(hdr, num_entries, table) ==
    Zeros(512) \o hdr.magic \o Zeros(64) \o to_le_bytes(2, 8)
        \o to_le_bytes(num_entries, 4) \o to_le_bytes(hdr.entry_size, 4)
        \o Zeros(424)
        \o Concat([i \in 1..Len(table) |-> GptSlotBytes(table[i], i)])

\* parse_gpt(&data, storage_type)
Do_parse_gpt ==
    /\ pc = "parse_gpt"
    /\ rv' = parse_gpt(op.data, Len(op.data))
    /\ pc' = "done"
    /\ UNCHANGED <<op, stack, loc, io>>

\* Where an image holds the magic once more after its table (-1: nowhere):
\* at an offset parse_gpt does not look at, and at the four candidates
\* other than 512; 512 stands for the image that ends with its first 520
\* bytes.
GptFarMagics == {-1, 512, 2048, 4096, 32768, 65536, 131072}

\* The table of the images that hold the magic once more.
GptFarTable == <<[used |-> TRUE, lba |-> <<64, 79>>], [used |-> TRUE, lba |-> <<80, 80>>]>>

\* The image with the magic once more at the offset far, less its last
\* `cut` bytes.
GptFarDisk(disk, far, cut) ==
    IF far < 0 THEN disk
    ELSE SubSeq(disk \o Zeros(far - Len(disk)) \o EfiPart, 1, far + 8 - cut)

InitGpt ==
    /\ \E table \in GptTables, hdr \in GptHeaders, far \in GptFarMagics,
          cut \in {0, 1} :
         \E num_entries \in 0..(Len(table) + 1) :
           /\ far < 0 => cut = 0
           /\ far >= 0 => table = GptFarTable /\ num_entries = Len(table)
           /\ op = [fn |-> "parse_gpt", table |-> table, hdr |-> hdr,
                    num_entries |-> num_entries, far |-> far, cut |-> cut,
                    data |-> GptFarDisk(GptDisk(hdr, num_entries, table),
                                        far, cut)]
    /\ pc = "parse_gpt"
    /\ stack = <<>>
    /\ loc = [calls |-> <<>>]
    /\ rv = NoRet
    /\ io = <<>>

NextGpt == Do_parse_gpt

SpecGpt == InitGpt /\ [][NextGpt]_vars

----------------------------------------------------------------------------
(* Properties of parse_gpt.                                                *)

\* The entries the header announces and the image holds whose type GUID is
\* set.
GptListed ==
    {i \in 1..Len(op.table) : i <= op.num_entries /\ op.table[i].used}

\* The entry at index i made the partition.
GptMade(i, partition) ==
    /\ op.table[i].lba[2] >= op.table[i].lba[1]
    /\ partition.size = (op.table[i].lba[2] - op.table[i].lba[1] + 1) * 512
    /\ partition.address = op.table[i].lba[1] * 512
    /\ partition.name = GptSlotName(i)

\* C22: every partition parse_gpt returns comes from a listed entry with
\* last_lba >= first_lba, and has size (last_lba - first_lba + 1) * 512 and
\* address first_lba * 512; if a listed entry has last_lba < first_lba,
\* parse_gpt returns an error and no list.
C22_GptLaw ==
    (pc = "done" /\ op.fn = "parse_gpt") =>
        /\ rv.ok =>
              \A k \in 1..Len(rv.val) :
                 \E i \in GptListed : GptMade(i, rv.val[k])
        /\ (\E i \in GptListed : op.table[i].lba[2] < op.table[i].lba[1]) =>
              ~rv.ok /\ rv.kind = "InvalidData"

\* parse_gpt returned the partition of 0x2000 bytes at 0x8000 for the entry
\* with the LBAs 0x40 and 0x4F, next to another one.
C22_Witness ==
    /\ pc = "done"
    /\ op.fn = "parse_gpt"
    /\ rv.ok
    /\ Len(rv.val) = 2
    /\ op.table[1].lba = <<64, 79>>
    /\ rv.val[1].address = 32768
    /\ rv.val[1].size = 8192

----------------------------------------------------------------------------
(* da.rs: the DA file.                                                     *)

\* b"MTK_DA_v6": nine bytes.
MtkDaV6 == <<77, 84, 75, 95, 68, 65, 95, 118, 54>>

\* parse_da: hdr.windows(10).any(|w| w == b"MTK_DA_v6"), each window of ten
\* bytes compared with the nine bytes of the literal.
hdr_has_v6(hdr) ==
    \E k \in 1..(Len(hdr) - 9) : SubSeq(hdr, k, k + 9) = MtkDaV6

\* parse_da: da_type
da_type_of(hdr) ==
    IF SubSeq(hdr, 1, 2) = <<218, 218>> THEN "Legacy"
    ELSE IF hdr_has_v6(hdr) THEN "V6"
    ELSE "V5"

\* parse_da: da_entry_size
da_entry_size_of(da_type) == IF da_type = "Legacy" THEN 216 ELSE 220

\* parse_da: the loop over the region table of an entry, from region k on.
\* offset - sig_len overflows when sig_len > offset: a build with overflow
\* checks panics, one without wraps (a negative number of the model).
RECURSIVE parse_da_regions(_, _, _, _, _, _, _)
parse_da_regions(raw_data, len, da_entry, region_count, k, regions, checked) ==
    IF k >= region_count THEN Ok(regions)
    ELSE IF 20 + 20 * k + 20 > Len(da_entry) THEN Panic
    ELSE LET h == SubSeq(da_entry, 20 + 20 * k + 1, 20 + 20 * k + 20)
             offset == u32_from_le_bytes(SubSeq(h, 1, 4))
             length == u32_from_le_bytes(SubSeq(h, 5, 8))
             addr == u32_from_le_bytes(SubSeq(h, 9, 12))
             sig_len == u32_from_le_bytes(SubSeq(h, 17, 20)) IN
         IF offset + length > len THEN Panic
         ELSE IF sig_len > offset /\ checked THEN Panic
         ELSE parse_da_regions(raw_data, len, da_entry, region_count, k + 1,
                               Append(regions,
                                      [data |-> SubSeq(raw_data, offset + 1,
                                                       offset + length),
                                       offset |-> offset, length |-> length,
                                       addr |-> addr,
                                       region_offset |-> offset - sig_len,
                                       sig_len |-> sig_len]),
                               checked)

\* parse_da: the loop over the entries of the header, from entry i on.
RECURSIVE parse_da_entries(_, _, _, _, _, _, _)
parse_da_entries(raw_data, len, da_type, num_socs, i, das, checked) ==
    IF i >= num_socs THEN Ok(das)
    ELSE LET start == 108 + i * da_entry_size_of(da_type)
             end == start + da_entry_size_of(da_type) IN
         IF end > len THEN Panic
         ELSE LET da_entry == SubSeq(raw_data, start + 1, end)
                  regions ==
                      parse_da_regions(
                          raw_data, len, da_entry,
                          u16_from_le_bytes(SubSeq(da_entry, 19, 20)), 0,
                          <<>>, checked) IN
              IF ~regions.ok THEN regions
              ELSE parse_da_entries(
                       raw_data, len, da_type, num_socs, i + 1,
                       Append(das,
                              [da_type |-> da_type, regions |-> regions.val,
                               magic |->
                                   u16_from_le_bytes(SubSeq(da_entry, 1, 2)),
                               hw_code |->
                                   u16_from_le_bytes(SubSeq(da_entry, 3, 4)),
                               hw_sub_code |->
                                   u16_from_le_bytes(SubSeq(da_entry, 5, 6))]),
                       checked)

\* DAFile::parse_da, for raw_data of `len` bytes
parse_da(raw_data, len, checked) ==
    IF len < 108 THEN Panic
    ELSE LET hdr == SubSeq(raw_data, 1, 108)
             das == parse_da_entries(
                        raw_data, len, da_type_of(hdr),
                        u32_from_le_bytes(SubSeq(hdr, 105, 108)), 0, <<>>,
                        checked) IN
         IF ~das.ok THEN das
         ELSE Ok([da_type |-> da_type_of(hdr),
                  da_entry_size |-> da_entry_size_of(da_type_of(hdr)),
                  das |-> das.val])

\* get_da_from_hw_code if it compared hw_code alone.
RECURSIVE get_da_from_hw_code_alone(_, _, _, _)
get_da_from_hw_code_alone(das, hw_code, hw_sub_code, i) ==
    IF i > Len(das) THEN <<>>
    ELSE IF das[i].hw_code = hw_code THEN <<das[i]>>
    ELSE get_da_from_hw_code_alone(das, hw_code, hw_sub_code, i + 1)

\* DAFile::get_da_from_hw_code, from the entry i on: an Option as a sequence
\* of at most one item.
RECURSIVE get_da_from_hw_code(_, _, _, _)
get_da_from_hw_code(das, hw_code, hw_sub_code, i) ==
    IF i > Len(das) THEN <<>>
    ELSE IF das[i].hw_code = hw_code /\ das[i].hw_sub_code = hw_sub_code
    THEN <<das[i]>>
    ELSE get_da_from_hw_code(das, hw_code, hw_sub_code, i + 1)

(* A DA file is chosen, parsed and searched.                               *)

\* The most entries a DA file of the model holds.
MaxSocs == 2

\* The hw_code and hw_sub_code of the entries: two entries may agree in
\* both, in one, or in none.
DaIds == {<<26469, 35328>>, <<26469, 0>>, <<26472, 35328>>}

\* What an entry says: its codes and its region table, which is empty,
\* holds a region of four bytes, or holds a region at offset 0 with a
\* signature length of 256.
DaEntries == [id : DaIds, region : {"none", "plain", "signed"}]

\* The headers: "MTK_DOWNLOAD_AGENT" with the identifier of a v5 file or
\* of a v6 file at 0x20, and the bytes DA DA without and with the
\* identifier of a v6 file.
DaHeaders ==
    {[legacy |-> FALSE, v6 |-> FALSE], [legacy |-> FALSE, v6 |-> TRUE],
     [legacy |-> TRUE, v6 |-> FALSE], [legacy |-> TRUE, v6 |-> TRUE]}

\* The 0x6C bytes of a header that announces num_socs entries.
DaHeaderBytes(h, num_socs) ==
    (IF h.legacy THEN <<218, 218>> ELSE <<77, 84>>) \o Zeros(30)
        \o (IF h.v6 THEN MtkDaV6 \o Zeros(55) ELSE <<77, 84, 75>> \o Zeros(61))
        \o to_le_bytes(4, 4) \o to_le_bytes(0, 4) \o to_le_bytes(num_socs, 4)

\* The bytes of an entry whose region data, if any, lies at data_offset.
DaEntryBytes(e, entry_size, data_offset) ==
    to_le_bytes(56026, 2) \o to_le_bytes(e.id[1], 2)
        \o to_le_bytes(e.id[2], 2) \o Zeros(12)
        \o to_le_bytes(IF e.region = "none" THEN 0 ELSE 1, 2)
        \o to_le_bytes(IF e.region = "plain" THEN data_offset ELSE 0, 4)
        \o to_le_bytes(4, 4) \o to_le_bytes(2097152, 4) \o to_le_bytes(0, 4)
        \o to_le_bytes(IF e.region = "signed" THEN 256 ELSE 0, 4)
        \o Zeros(entry_size - 40)

\* A DA file: the header, the entries at the size of its type, and four
\* bytes of region data.
DaFileBytes(h, table) ==
    DaHeaderBytes(h, Len(table))
        \o Concat([i \in 1..Len(table) |->
                      DaEntryBytes(table[i],
                                   IF h.legacy THEN 216 ELSE 220,
                                   108 + Len(table)
                                           * (IF h.legacy THEN 216 ELSE 220))])
        \o <<222, 173, 190, 239>>

\* parse_da(&raw_data)
Do_parse_da ==
    /\ pc = "parse_da"
    /\ \E da_file \in {parse_da(op.raw_data, Len(op.raw_data), op.checked)} :
         IF ~da_file.ok THEN Abort /\ loc' = loc
         ELSE /\ loc' = [loc EXCEPT !.da_file = da_file.val]
              /\ pc' = "get_da_from_hw_code"
              /\ UNCHANGED <<stack, rv>>
    /\ UNCHANGED <<op, io>>

\* da_file.get_da_from_hw_code(hw_code, hw_sub_code)
Do_get_da_from_hw_code ==
    /\ pc = "get_da_from_hw_code"
    /\ rv' = get_da_from_hw_code(loc.da_file.das, op.hw_code, op.hw_sub_code, 1)
    /\ pc' = "done"
    /\ UNCHANGED <<op, stack, loc, io>>

InitDa ==
    /\ \E n \in 0..MaxSocs, h \in DaHeaders, id \in DaIds, checked \in BOOLEAN :
         \E table \in [1..n -> DaEntries], cut \in BOOLEAN :
           /\ cut => n = 0
           /\ op = [fn |-> "parse_da", table |-> table, hdr |-> h,
                    raw_data |-> IF cut THEN SubSeq(DaFileBytes(h, table), 1, 100)
                                 ELSE DaFileBytes(h, table),
                    hw_code |-> id[1], hw_sub_code |-> id[2],
                    checked |-> checked]
    /\ pc = "parse_da"
    /\ stack = <<>>
    /\ loc = [calls |-> <<>>,
              da_file |-> [da_type |-> "V5", da_entry_size |-> 0, das |-> <<>>]]
    /\ rv = NoRet
    /\ io = <<>>

NextDa ==
    \/ Do_parse_da
    \/ Do_get_da_from_hw_code

SpecDa == InitDa /\ [][NextDa]_vars

----------------------------------------------------------------------------
(* Properties of the DA file.                                              *)

\* The entries of the file whose codes are the arguments of the lookup.
DaMatches ==
    {i \in 1..Len(op.table) :
        op.table[i].id = <<op.hw_code, op.hw_sub_code>>}

\* The DA is what parse_da made of the entry at index i of the file.
DaOfEntry(da, i) ==
    /\ da = loc.da_file.das[i]
    /\ da.hw_code = op.table[i].id[1]
    /\ da.hw_sub_code = op.table[i].id[2]
    /\ Len(da.regions) = IF op.table[i].region = "none" THEN 0 ELSE 1

\* C23: get_da_from_hw_code(hw_code, hw_sub_code) returns the first entry
\* of the file, in file order, whose hw_code and hw_sub_code both equal the
\* arguments, and none when no entry matches.
C23_DaLookup ==
    (pc = "done" /\ op.fn = "parse_da" /\ rv # Panic) =>
        IF DaMatches = {} THEN rv = <<>>
        ELSE /\ Len(rv) = 1
             /\ rv[1].hw_code = op.hw_code
             /\ rv[1].hw_sub_code = op.hw_sub_code
             /\ \E i \in DaMatches :
                   /\ \A j \in DaMatches : i <= j
                   /\ DaOfEntry(rv[1], i)

\* The lookup returned the second of two entries with the same hw_code, the
\* first of them with another hw_sub_code.
C23_Witness ==
    /\ pc = "done"
    /\ op.fn = "parse_da"
    /\ rv # Panic
    /\ Len(op.table) = 2
    /\ op.table[1].id[1] = op.hw_code
    /\ op.table[1].id[2] # op.hw_sub_code
    /\ Len(rv) = 1
    /\ rv[1] = loc.da_file.das[2]

\* The first 0x6C bytes hold the ASCII string MTK_DA_v6 somewhere.
HoldsMtkDaV6(raw_data) ==
    \E k \in 1..100 : SubSeq(raw_data, k, k + 8) = MtkDaV6

\* The type the first 0x6C bytes of the file stand for.
DaTypeMeant(raw_data) ==
    IF SubSeq(raw_data, 1, 2) = <<218, 218>> THEN "Legacy"
    ELSE IF HoldsMtkDaV6(raw_data) THEN "V6"
    ELSE "V5"

\* C24: parse_da classifies the file from its first 0x6C bytes: Legacy when
\* they start with DA DA, otherwise V6 when they hold the string MTK_DA_v6,
\* otherwise V5; the entry size is 0xD8 for Legacy and 0xDC for V5 and V6.
C24_DaClassified ==
    (pc = "get_da_from_hw_code") =>
        /\ loc.da_file.da_type = DaTypeMeant(op.raw_data)
        /\ loc.da_file.da_entry_size =
               IF loc.da_file.da_type = "Legacy" THEN 216 ELSE 220

\* parse_da made a V5 file of one whose header holds MTK_DA_v6 and does not
\* start with DA DA.
C24_Witness ==
    /\ pc = "get_da_from_hw_code"
    /\ op.hdr.v6
    /\ ~op.hdr.legacy
    /\ HoldsMtkDaV6(op.raw_data)
    /\ loc.da_file.da_type = "V5"
    /\ Len(loc.da_file.das) = Len(op.table)

----------------------------------------------------------------------------
(* Properties of the handshake: a reply that does not match.               *)

\* The read at event i delivered bytes of which the last is not the reply
\* to the handshake byte written before it.
HsMismatchAt(i) ==
    /\ i % 2 = 0
    /\ io[i].k = "r"
    /\ io[i].b # <<>>
    /\ io[i].b[Len(io[i].b)] # HsAnswer(io[i - 1].b[1])

\* C25: when the reply to one of the handshake bytes A0, 0A, 50, 05 does not
\* match 5F, F5, AF, FA, the host writes that same byte again: the mismatch
\* neither ends the handshake with an error nor makes it write A0 again.
C25_MismatchResends ==
    \A i \in 1..Len(io) :
        HsMismatchAt(i) =>
            /\ i < Len(io) => io[i + 1] = io[i - 1]
            /\ i = Len(io) => pc # "done"

\* Connection::handshake returned an error after the device answered 0x0A
\* with 00, having been answered 5F to A0.
C25_Witness ==
    /\ op.fn = "Connection::handshake"
    /\ pc = "done"
    /\ ~rv.ok
    /\ rv.kind = "Other"
    /\ io = <<Wr(<<160>>), Rd(<<95>>), Wr(<<10>>), Rd(<<0>>)>>

----------------------------------------------------------------------------
(* send_data, devctrl, read32 and write32 on their own.                    *)

\* The addresses and values of the register accesses.
CtrlAddrs == {sej_base, 4}
CtrlValues == {0, 305419896}

\* The frame with which the device delivers the value of a register.
ValueFrame == Frame(to_le_bytes(RegisterValue, 4))

\* The calls: send_data, devctrl without and with a parameter, and the
\* register accesses with the latch using_exts in either state.
CtrlCalls ==
    {[fn |-> "send_data", cmd |-> 0, param |-> <<d>>, using_exts |-> FALSE,
      addr |-> 0, value |-> 0] : d \in {<<>>, <<1, 2, 3>>}}
      \cup {[fn |-> "devctrl", cmd |-> c, param |-> pm, using_exts |-> FALSE,
              addr |-> 0, value |-> 0] :
                c \in {Cmd.ExtAck, Cmd.SetRegisterValue},
                pm \in {<<>>, <<<<>>>>, <<<<1, 2, 3, 4, 5, 6, 7, 8>>>>}}
      \cup {[fn |-> f, cmd |-> 0, param |-> <<>>, using_exts |-> u,
              addr |-> a, value |-> v] :
                f \in {"read32", "write32"}, u \in BOOLEAN,
                a \in CtrlAddrs, v \in CtrlValues}

\* What the device delivers to a call: a status for each command and for
\* the parameter, and the frames of data the call reads; after the last
\* status of a register read without extensions it may deliver the value.
CtrlStreams(c) ==
    IF c.fn = "send_data" THEN Streams(<<StatusFrames>>)
    ELSE IF c.fn = "devctrl" /\ c.param = <<>>
    THEN Streams(<<StatusFrames, StatusFrames, ChunkFrames>>)
    ELSE IF c.fn = "read32" /\ c.using_exts
    THEN Streams(<<StatusFrames, StatusFrames,
                   {ValueFrame, Frame(<<90, 0>>), BadMagicHdr}, StatusFrames>>)
    ELSE IF c.fn = "read32"
    THEN Streams(<<StatusFrames, StatusFrames, StatusFrames, {ValueFrame}>>)
    ELSE Streams(<<StatusFrames, StatusFrames, StatusFrames>>)

\* The call ends: the device delivered rx, the call read it, but for the
\* frame with the value that a register read may leave unread.
CtrlReturn(r) ==
    /\ r.p.bytes = <<>> \/ (op.fn = "read32" /\ r.p.bytes = ValueFrame)
    /\ io' = io \o r.p.ev
    /\ loc' = [loc EXCEPT !.left = r.p.bytes]
    /\ Return(ResultOf(r))
    /\ UNCHANGED op

\* XFlash::send_data(data)
Do_send_data ==
    /\ pc = "send_data"
    /\ \E rx \in CtrlStreams(op) : CtrlReturn(send_data(rx, op.param[1]))

\* XFlash::devctrl(cmd, param)
Do_devctrl ==
    /\ pc = "devctrl"
    /\ \E rx \in CtrlStreams(op) : CtrlReturn(devctrl(rx, op.cmd, op.param))

\* XFlash::read32(addr)
Do_read32 ==
    /\ pc = "read32"
    /\ \E rx \in CtrlStreams(op) :
         CtrlReturn(XFlash_read32(rx, op.using_exts, op.addr))

\* XFlash::write32(addr, value)
Do_write32 ==
    /\ pc = "write32"
    /\ \E rx \in CtrlStreams(op) :
         CtrlReturn(XFlash_write32(rx, op.using_exts, op.addr, op.value))

InitCtrl ==
    /\ op \in CtrlCalls
    /\ loc = [left |-> <<>>]
    /\ pc = op.fn
    /\ stack = <<>>
    /\ rv = NoRet
    /\ io = <<>>

NextCtrl ==
    \/ Do_send_data
    \/ Do_devctrl
    \/ Do_read32
    \/ Do_write32

SpecCtrl == InitCtrl /\ [][NextCtrl]_vars

----------------------------------------------------------------------------
(* Properties of send_data, devctrl, read32 and write32.                   *)

\* The last read of the call delivered a header whose magic is not the
\* magic, and the call returned an error.
BadMagicReported ==
    /\ pc = "done"
    /\ ~rv.ok
    /\ io # <<>>
    /\ io[Len(io)].k = "r"
    /\ Len(io[Len(io)].b) = 12
    /\ u32_from_le_bytes(SubSeq(io[Len(io)].b, 1, 4)) # Cmd.Magic

\* The last read of the call delivered the payload of a status frame, the
\* status is not zero, and the call returned an error.
NonZeroStatusReported ==
    /\ pc = "done"
    /\ ~rv.ok
    /\ Len(io) >= 2
    /\ io[Len(io)].k = "r"
    /\ io[Len(io) - 1].k = "r"
    /\ io[Len(io) - 1].b = FrameHdr(DataType.ProtocolFlow, Len(io[Len(io)].b))
    /\ status_of(Len(io[Len(io)].b), io[Len(io)].b) # 0

\* The kind of the error get_status returns for a header with a wrong magic.
BadMagicKind == get_status(Rx(BadMagicHdr, "TimedOut")).kind

\* C26: a frame whose magic is not 0xFEEEEEFE and a status word other than
\* zero are reported with different error kinds: send_data reports a wrong
\* magic with the kind get_status gives it, and a non-zero status with
\* another kind.
C26_KindsDiffer ==
    (op.fn = "send_data") =>
        /\ BadMagicReported => rv.kind = BadMagicKind
        /\ NonZeroStatusReported => rv.kind # BadMagicKind

\* send_data returned an error of kind Other for a header with a wrong
\* magic, the kind it also returns for a status other than zero.
C26_Witness ==
    /\ op.fn = "send_data"
    /\ op.param[1] = <<1, 2, 3>>
    /\ BadMagicReported
    /\ rv.kind = "Other"
    /\ send_data(Rx(Frame(to_le_bytes(49153, 4)), "TimedOut"),
                 op.param[1]).kind = "Other"

\* The events of the call that read something or failed to.
CtrlReads == {i \in 1..Len(io) : io[i].k # "w"}

\* The call read n status frames and nothing else, and each status is zero.
ZeroStatuses(n) ==
    /\ Cardinality(CtrlReads) = 2 * n
    /\ \A i \in CtrlReads :
         /\ io[i].k = "r"
         /\ Len(io[i].b) = 12 =>
               /\ i < Len(io)
               /\ io[i] = Rd(FrameHdr(DataType.ProtocolFlow, Len(io[i + 1].b)))
               /\ status_of(Len(io[i + 1].b), io[i + 1].b) = 0

\* What devctrl writes for a sub-command and a parameter.
DevctrlRequest(cmd, param) ==
    WireFrame(to_le_bytes(Cmd.DeviceCtrl, 4)) \o WireFrame(to_le_bytes(cmd, 4))
        \o WireFrame(param)

\* C27: without extensions, read32(addr) issues devctrl(DeviceCtrlReadRegister)
\* with the address in 4 little-endian bytes and, when every status of the
\* exchange is zero, returns Ok with the value the device delivers;
\* write32(addr, value) issues devctrl(SetRegisterValue) with address and
\* value and returns Ok when every status is zero.
C27_PlainRegisterAccess ==
    (op.fn \in {"read32", "write32"} /\ ~op.using_exts) =>
        /\ IsPrefix(Written(io),
                    IF op.fn = "read32"
                    THEN DevctrlRequest(Cmd.DeviceCtrlReadRegister,
                                        to_le_bytes(op.addr, 4))
                    ELSE DevctrlRequest(Cmd.SetRegisterValue,
                                        to_le_bytes(op.addr, 4)
                                            \o to_le_bytes(op.value, 4)))
        /\ (pc = "done" /\ ZeroStatuses(3)) =>
              /\ rv.ok
              /\ (op.fn = "read32" /\ loc.left = ValueFrame) =>
                    rv.val = RegisterValue

\* read32 without extensions returned an error although the three statuses
\* were zero; the frame with the value was delivered and never read.
C27_Witness ==
    /\ op.fn = "read32"
    /\ ~op.using_exts
    /\ pc = "done"
    /\ ZeroStatuses(3)
    /\ Written(io) = DevctrlRequest(Cmd.DeviceCtrlReadRegister,
                                    to_le_bytes(op.addr, 4))
    /\ loc.left = ValueFrame
    /\ ~rv.ok
    /\ rv.kind = "Other"

\* The sub-command of a register access on the route the latch selects.
RoutedCmd ==
    IF op.using_exts
    THEN IF op.fn = "read32" THEN Cmd.ExtReadRegister
         ELSE Cmd.ExtWriteRegister
    ELSE IF op.fn = "read32" THEN Cmd.DeviceCtrlReadRegister
         ELSE Cmd.SetRegisterValue

\* What follows the sub-command on that route: with extensions the address
\* and the value in a frame of 4 bytes each, without them one parameter.
RoutedArgs ==
    IF op.using_exts
    THEN WireFrame(to_le_bytes(op.addr, 4))
           \o (IF op.fn = "write32" THEN WireFrame(to_le_bytes(op.value, 4))
               ELSE <<>>)
    ELSE WireFrame(to_le_bytes(op.addr, 4)
                     \o (IF op.fn = "write32" THEN to_le_bytes(op.value, 4)
                         ELSE <<>>))

\* The first status the call read is zero.
FirstStatusZero ==
    /\ Len(io) >= 4
    /\ io[3] = Rd(FrameHdr(DataType.ProtocolFlow, Len(io[4].b)))
    /\ io[4].k = "r"
    /\ status_of(Len(io[4].b), io[4].b) = 0

\* C28: read32 and write32 send ExtReadRegister / ExtWriteRegister, with the
\* address and the value in frames of their own, exactly when using_exts is
\* true, and DeviceCtrlReadRegister / SetRegisterValue otherwise; on both
\* routes the sub-command is sent only after DeviceCtrl was answered with
\* status 0.
C28_Routing ==
    (op.fn \in {"read32", "write32"}) =>
        /\ IsPrefix(Written(io),
                    WireFrame(to_le_bytes(Cmd.DeviceCtrl, 4))
                        \o WireFrame(to_le_bytes(RoutedCmd, 4)) \o RoutedArgs)
        /\ Len(Written(io)) > 16 => FirstStatusZero
        /\ (pc = "done" /\ FirstStatusZero) => Len(Written(io)) >= 32
        /\ (pc = "done" /\ rv.ok) =>
              Written(io) = WireFrame(to_le_bytes(Cmd.DeviceCtrl, 4))
                              \o WireFrame(to_le_bytes(RoutedCmd, 4))
                              \o RoutedArgs

\* A read32 with extensions returned the value of the register, having sent
\* ExtReadRegister and the address.
C28_Witness ==
    /\ op.fn = "read32"
    /\ op.using_exts
    /\ pc = "done"
    /\ rv.ok
    /\ rv.val = RegisterValue
    /\ FirstStatusZero
    /\ SubSeq(Written(io), 29, 32) = to_le_bytes(Cmd.ExtReadRegister, 4)

\* The status the call read with the events i and i + 1, or -1 when these
\* events are not the header and the payload of a status frame.
StatusReadAt(i) ==
    IF /\ Len(io) > i
       /\ io[i] = Rd(FrameHdr(DataType.ProtocolFlow, Len(io[i + 1].b)))
       /\ io[i + 1].k = "r"
    THEN status_of(Len(io[i + 1].b), io[i + 1].b)
    ELSE -1

\* C30: devctrl(cmd, param) sends DeviceCtrl, then the sub-command only after
\* it read status 0, then the parameter (or reads the response frame) only
\* after the sub-command was answered with status 0. With a parameter it
\* returns an empty vector after send_data succeeded, without one the
\* payload of exactly one data frame. A status other than zero at either
\* step returns an error and nothing more is written.
C30_DevctrlOrder ==
    (op.fn = "devctrl") =>
        /\ IsPrefix(Written(io),
                    DevctrlRequest(op.cmd,
                                   IF op.param = <<>> THEN <<>>
                                   ELSE op.param[1]))
        /\ IsPrefix(Written(io),
                    WireFrame(to_le_bytes(Cmd.DeviceCtrl, 4))
                        \o WireFrame(to_le_bytes(op.cmd, 4)))
             \/ op.param # <<>>
        /\ Len(io) > 4 => StatusReadAt(3) = 0
        /\ Len(io) > 8 => StatusReadAt(7) = 0
        /\ (pc = "done" /\ StatusReadAt(3) \notin {0, -1}) =>
              ~rv.ok /\ Len(io) = 4
        /\ (pc = "done" /\ StatusReadAt(3) = 0
               /\ StatusReadAt(7) \notin {0, -1}) =>
              ~rv.ok /\ Len(io) = 8
        /\ (pc = "done" /\ rv.ok) =>
              /\ StatusReadAt(3) = 0
              /\ StatusReadAt(7) = 0
              /\ IF op.param # <<>>
                 THEN /\ rv.val = <<>>
                      /\ StatusReadAt(Len(io) - 1) = 0
                      /\ Written(io) = DevctrlRequest(op.cmd, op.param[1])
                 ELSE /\ Len(io) = 10
                      /\ io[9] = Rd(FrameHdr(DataType.ProtocolFlow,
                                             Len(rv.val)))
                      /\ io[10] = Rd(rv.val)

\* devctrl without a parameter returned the three bytes of the one data
\* frame that followed two zero statuses.
C30_Witness ==
    /\ op.fn = "devctrl"
    /\ op.param = <<>>
    /\ pc = "done"
    /\ rv.ok
    /\ rv.val = <<7, 8, 9>>
    /\ StatusReadAt(3) = 0
    /\ StatusReadAt(7) = 0
    /\ Len(io) = 10

----------------------------------------------------------------------------
(* Properties of the latch using_exts.                                     *)

\* The 24 events of t are a boot_to of the extension blob to 0x68000000 that
\* succeeded, and an ExtAck exchange whose response begins with A4 A3 A2 A1
\* and whose last status is zero.
ExtsBooted(t, blob) ==
    /\ Written(SubSeq(t, 1, 12))
         = WireFrame(to_le_bytes(Cmd.BootTo, 4))
             \o WireFrame(to_le_bytes(1744830464, 4) \o <<0, 0, 0, 0>>
                            \o to_le_bytes(Len(blob), 4) \o <<0, 0, 0, 0>>)
             \o WireFrame(blob)
    /\ SubSeq(t, 3, 4) = ZeroStatus
    /\ SubSeq(t, 9, 10) = ZeroStatus
    /\ t[11] = Rd(WireHdr(4))
    /\ t[12] \in {Rd(to_le_bytes(Cmd.SyncSignal, 4)), Rd(<<0, 0, 0, 0>>)}
    /\ Written(SubSeq(t, 13, 24))
         = WireFrame(to_le_bytes(Cmd.DeviceCtrl, 4))
             \o WireFrame(to_le_bytes(Cmd.ExtAck, 4))
    /\ SubSeq(t, 15, 16) = ZeroStatus
    /\ SubSeq(t, 19, 20) = ZeroStatus
    /\ t[21] = Rd(WireHdr(Len(t[22].b)))
    /\ t[22].k = "r"
    /\ Len(t[22].b) >= 4
    /\ SubSeq(t[22].b, 1, 4) = <<164, 163, 162, 161>>
    /\ SubSeq(t, 23, 24) = ZeroStatus

\* The latch was set during this operation, and the log ends with the
\* exchanges that set it.
LatchedByExchange ==
    /\ Len(io) >= 24
    /\ \E ext_data \in prepare_extensions(op.da) :
         /\ ext_data # <<>>
         /\ ExtsBooted(SubSeq(io, Len(io) - 23, Len(io)), ext_data[1])

\* C29: the latch using_exts is false at construction; it becomes true only
\* after boot_to(0x68000000, blob) succeeded, the response to ExtAck began
\* with A4 A3 A2 A1 and the status after it was 0; it stays false when one
\* of these steps fails; once true it is never reset; and boot_extensions
\* called while it is true writes nothing to the port.
C29_ExtsLatch ==
    /\ [](/\ ~XFlash_new.using_exts
          /\ (op.fn = "upload_da" /\ ~op.using_exts /\ loc.using_exts) =>
                LatchedByExchange
          /\ (op.fn = "upload_da" /\ ~op.using_exts /\ pc = "done"
                 /\ ~rv.ok) => ~loc.using_exts)
    /\ [][/\ loc.using_exts => loc'.using_exts
          /\ (pc = "boot_extensions" /\ loc.using_exts) =>
                io' = io /\ rv'.ok]_vars

\* upload_da set the latch: it returned Ok after the extension blob was
\* booted and acknowledged.
C29_Witness ==
    /\ op.fn = "upload_da"
    /\ ~op.using_exts
    /\ pc = "done"
    /\ rv.ok
    /\ loc.using_exts
    /\ LatchedByExchange

----------------------------------------------------------------------------
(* Properties of get_status.                                               *)

\* get_status returned Ok: it read a header and a payload.
StatusReturned ==
    /\ op.fn = "get_status"
    /\ pc = "done"
    /\ rv.ok

\* The number a payload of 1, 2 or 4 bytes encodes, little-endian.
PayloadNumber(b) ==
    IF Len(b) = 1 THEN b[1]
    ELSE IF Len(b) = 2 THEN u16_from_le_bytes(b)
    ELSE u32_from_le_bytes(b)

\* get_status read one header of 12 bytes that starts with the magic and
\* then as many bytes as its length field says, and nothing else.
StatusFrameRead ==
    /\ Len(io) = 2
    /\ io[1].k = "r"
    /\ Len(io[1].b) = 12
    /\ SubSeq(io[1].b, 1, 4) = WireMagic
    /\ io[2].k = "r"
    /\ Len(io[2].b) = u32_from_le_bytes(SubSeq(io[1].b, 9, 12))

----------------------------------------------------------------------------
(* Properties of the search for the sealing algorithm.                     *)

\* The transforms in the order the search is to try them, and the
\* algorithm each one stands for.
TriedInOrder == <<"sej_seccfg_sw(false)", "sej_seccfg_hw(false)", "sej_seccfg_hw_v3(false)", "sej_seccfg_hw_v4(false)">>
AlgoTried == <<"SW", "HW", "HWv3", "HWv4">>

\* The transforms run that decrypt, and those that seal, in the order run.
Decrypted == SelectSeq(loc.transforms, LAMBDA t : t \in {TriedInOrder[i] : i \in 1..4})
Sealings == SelectSeq(loc.transforms, LAMBDA t : t \notin {TriedInOrder[i] : i \in 1..4})

\* parse returned a record.
ParseReturned == op.fn = "parse" /\ pc = "done" /\ rv.ok

\* create returned the blob of the record loc.seccfg.
CreateReturned == pc = "codec.parse" /\ rv.ok

\* The values the SEJ block may have delivered to a transform: the one of
\* the device, or 0 where the register access failed.
SejDelivered == {0, RegisterValue}

\* C32: parse latches None with no transform run when the sealed hash is
\* the reference hash; otherwise it runs the transforms SW, HW, HWv3, HWv4
\* in that order with encrypt = false, stops at the first whose output is
\* the reference and latches it, and latches nothing when all four were
\* run without a match. create runs the sealing transform of the latched
\* algorithm and no other, and the 32 bytes after the header are the
\* reference hash sealed by it (unsealed when the algorithm is None).
C32_AlgoLatched ==
    /\ ParseReturned =>
         LET h == parse_header(op.data, Len(op.data)).val
             n == Len(loc.transforms) IN
         IF h.hash = h.calculated_hash
         THEN rv.val.algo = <<"None">> /\ n = 0
         ELSE /\ n >= 1
              /\ IsPrefix(loc.transforms, TriedInOrder)
              /\ rv.val.algo # <<>> => rv.val.algo = <<AlgoTried[n]>>
              /\ rv.val.algo = <<>> => n = 4
              /\ (rv.val.algo = <<"SW">>)
                    <=> (sej_seccfg_sw(h.hash, FALSE) = h.calculated_hash)
              /\ \A a \in {"HW", "HWv3", "HWv4"} :
                    rv.val.algo = <<a>> =>
                       \E v \in SejDelivered :
                          sej_seccfg_hw(a, h.hash, FALSE, v)
                              = h.calculated_hash
    /\ CreateReturned =>
         LET cfg == loc.seccfg
             hash == Sha256(seccfg_header(cfg))
             sealed == SubSeq(rv.val, 29, 60) IN
         /\ op.fn = "parse_create_parse" =>
               /\ IsPrefix(Decrypted, TriedInOrder)
               /\ cfg.algo = <<"None">> => Decrypted = <<>>
               /\ cfg.algo = <<>> => Decrypted = TriedInOrder
               /\ cfg.algo \notin {<<>>, <<"None">>} =>
                     /\ Decrypted # <<>>
                     /\ cfg.algo = <<AlgoTried[Len(Decrypted)]>>
         /\ IF cfg.algo \in {<<>>, <<"None">>}
            THEN Sealings = <<>> /\ sealed = hash
            ELSE /\ Sealings = <<SejEncrypt[cfg.algo[1]]>>
                 /\ IF cfg.algo = <<"SW">>
                    THEN sealed = sej_seccfg_sw(hash, TRUE)
                    ELSE \E v \in SejDelivered :
                            sealed = sej_seccfg_hw(cfg.algo[1], hash, TRUE, v)

\* parse latched HW after the software transform had not matched, and
\* create sealed the hash of the relocked record with the HW transform.
C32_Witness ==
    /\ op.fn = "parse_create_parse"
    /\ CreateReturned
    /\ loc.seccfg.algo = <<"HW">>
    /\ loc.transforms = <<"sej_seccfg_sw(false)", "sej_seccfg_hw(false)", "sej_seccfg_hw(true)">>

----------------------------------------------------------------------------
(* Properties of the regions upload_da takes from the DA.                  *)

\* upload_da is at boot_to with the DA2 image, before any extension.
BootingDa2 == pc = "boot_to" /\ stack # <<>> /\ Head(stack) = "upload_da.boot_to"

\* C33: upload_da on a DA with fewer than 3 regions returns the error
\* NotFound with nothing written to or read from the port; on a DA with 3
\* regions or more the image uploaded as DA1 is regions[1] and the image
\* booted as DA2 is that of regions[2] at its address, and the error
\* NotFound is not returned.
C33_RegionsNeeded ==
    op.fn = "upload_da" =>
       IF Len(op.da.regions) < 3
       THEN /\ io = <<>>
            /\ pc \in {"upload_da", "done"}
            /\ pc = "done" => ~rv.ok /\ rv.kind = "NotFound"
       ELSE /\ get_da1(op.da) = <<op.da.regions[2]>>
            /\ get_da2(op.da) = <<op.da.regions[3]>>
            /\ pc # "upload_da" => loc.da1 = op.da.regions[2]
            /\ BootingDa2 =>
                  /\ loc.addr = op.da.regions[3].addr
                  /\ loc.data \in Carbonara(op.da.regions[3])
            /\ pc = "done" => rv.kind # "NotFound"

\* upload_da on the DA of two regions returned NotFound, the port
\* untouched.
C33_Witness ==
    /\ op.fn = "upload_da"
    /\ Len(op.da.regions) = 2
    /\ pc = "done"
    /\ rv.kind = "NotFound"
    /\ io = <<>>

----------------------------------------------------------------------------
(* Properties of the byte order of the preloader commands.                 *)

\* The four bytes of n, the most significant first and the least
\* significant first, and the number four bytes stand for when the most
\* significant is first.
MsbFirst(n) == <<(n \div 16777216) % 256, (n \div 65536) % 256, (n \div 256) % 256, n % 256>>
LsbFirst(n) == <<n % 256, (n \div 256) % 256, (n \div 65536) % 256, (n \div 16777216) % 256>>
MsbFirstValue(b) == 16777216 * b[1] + 65536 * b[2] + 256 * b[3] + b[4]

\* The i-th event of io is a read of a status word that is not zero.
NonZeroWordAt(i) == Len(io) >= i /\ io[i].k = "r" /\ io[i].b # <<0, 0>>

\* C34: send_da writes the opcode, then address, length and sig_len with
\* the most significant byte first (00 20 00 00 for the address 0x200000),
\* and fails when either status word has a byte that is not zero; jump_da
\* writes the address with the least significant byte first and fails on
\* a status word that is not zero; get_soc_id and get_meid take the four
\* bytes after the echo as a length with the most significant byte first,
\* read exactly that many bytes in the next read, then the status, and
\* return those bytes.
C34_ByteOrder ==
    /\ (op.fn = "send_da" /\ pc = "done") =>
          /\ IsPrefix(Written(io),
                      <<215>> \o MsbFirst(op.args.address)
                          \o MsbFirst(op.args.da_len)
                          \o MsbFirst(op.args.sig_len) \o op.args.da_data)
          /\ (op.args.address = 2097152 /\ Len(io) >= 3) =>
                io[3] = Wr(<<0, 32, 0, 0>>)
          /\ (NonZeroWordAt(9) \/ NonZeroWordAt(12)) =>
                ~rv.ok /\ rv.kind = "Other"
          /\ rv.ok => Len(Written(io)) = 13 + Len(op.args.da_data)
    /\ (op.fn = "jump_da" /\ pc = "done") =>
          /\ IsPrefix(Written(io), <<213>> \o LsbFirst(op.args.address))
          /\ NonZeroWordAt(5) => ~rv.ok /\ rv.kind = "Other"
          /\ rv.ok => Len(Written(io)) = 5 /\ io[5] = Rd(<<0, 0>>)
    /\ (op.fn \in {"get_soc_id", "get_meid"} /\ pc = "done") =>
          /\ (Len(io) >= 4 /\ io[3].k = "r" /\ io[4].k = "r") =>
                Len(io[4].b) = MsbFirstValue(io[3].b)
          /\ NonZeroWordAt(5) => ~rv.ok /\ rv.kind = "Other"
          /\ rv.ok =>
                /\ Len(io) = 5
                /\ Len(io[3].b) = 4
                /\ rv.val = io[4].b
                /\ Len(rv.val) = MsbFirstValue(io[3].b)
                /\ io[5] = Rd(<<0, 0>>)

\* send_da returned Ok after writing the address 0x200000 as 00 20 00 00
\* and the length 4 as 00 00 00 04.
C34_Witness ==
    /\ op.fn = "send_da"
    /\ pc = "done"
    /\ rv.ok
    /\ io[3] = Wr(<<0, 32, 0, 0>>)
    /\ io[5] = Wr(<<0, 0, 0, 4>>)

\* jump_da returned Ok after writing the address 0x200000 as 00 00 20 00.
C34_WitnessJump ==
    /\ op.fn = "jump_da"
    /\ pc = "done"
    /\ rv.ok
    /\ io[3] = Wr(<<0, 0, 32, 0>>)

\* get_soc_id returned the two bytes that followed the length 00 00 00 02.
C34_WitnessId ==
    /\ op.fn = "get_soc_id"
    /\ pc = "done"
    /\ rv.ok
    /\ io[3] = Rd(<<0, 0, 0, 2>>)
    /\ rv.val = <<17, 34>>

----------------------------------------------------------------------------
(* exts.rs: the patching of the extension blob.                            *)

\* find_pattern of core/utilities.rs: the place (from 0) of the first
\* window of data at or after offset that equals to_find, as an Option.
find_pattern(data, to_find, offset) ==
    IF data = <<>> \/ Len(data) < Len(to_find) \/ offset >= Len(data)
    THEN <<>>
    ELSE LET hits == {i \in offset..(Len(data) - Len(to_find)) :
                         SubSeq(data, i + 1, i + Len(to_find)) = to_find} IN
         IF hits = {} THEN <<>>
         ELSE <<CHOOSE i \in hits : \A j \in hits : i <= j>>

\* The signatures prepare_extensions looks for in DA2.
Signature ==
    [register_devctrl |-> <<56, 181, 5, 70, 12, 32>>,
     mmc_get_card |-> <<75, 79, 244, 60, 114>>,
     mmc_get_card_2 |-> <<163, 235, 0, 19, 24, 26, 2, 235, 0, 16>>,
     mmc_set_part_config |-> <<195, 105, 10, 70, 16, 181>>,
     mmc_set_part_config_2 |-> <<195, 105, 19, 240, 1, 3>>,
     mmc_rpmb_send_command |-> <<248, 181, 6, 70, 157, 248, 24, 80>>,
     mmc_rpmb_send_command_2 |-> <<45, 233, 240, 65, 79, 246, 253, 116>>,
     ptr_g_ufs_hba |-> <<32, 70, 11, 176, 189, 232, 240, 131, 0, 191>>,
     ptr_g_ufs_hba_2 |-> <<32, 70, 13, 176, 189, 232, 240, 131>>,
     ptr_g_ufs_hba_3 |-> <<33, 70, 2, 240, 2, 251, 27, 230, 0, 191>>,
     ufshcd_get_free_tag |-> <<181, 46, 177, 144, 248>>,
     ufshcd_queuecommand |-> <<45, 233, 248, 67, 1, 39>>]

\* usize::saturating_sub
saturating_sub(a, c) == IF a >= c THEN a - c ELSE 0

\* x | 1
BitZeroSet(x) == IF x % 2 = 0 THEN x + 1 ELSE x

\* The extension blob payloads/da_x.bin: an image with the sentinel words
\* 0x11111111 to 0x77777777, here two instructions, the seven words and
\* a tail.
DA_EXT ==
    <<0, 190, 0, 191>> \o Concat([k \in 1..7 |-> [i \in 1..4 |-> 17 * k]])
        \o <<112, 71>>

\* The sentinel word of slot k.
Sentinel(k) == [i \in 1..4 |-> 17 * k]

\* prepare_extensions: mmc_get_card, by its signature and then by the
\* other one.
find_mmc_get_card(da2) ==
    LET first == find_pattern(da2, Signature.mmc_get_card, 0)
        second == find_pattern(da2, Signature.mmc_get_card_2, 0) IN
    IF first # <<>> THEN <<saturating_sub(first[1], 1)>>
    ELSE IF second # <<>> THEN <<saturating_sub(second[1], 10)>>
    ELSE <<>>

\* prepare_extensions: the loop over the matches of the signature of
\* mmc_set_part_config, which stops at the first match followed by B3 21
\* at +20, and the other signature when there is none.
find_mmc_set_part_config(da2) ==
    LET sig == Signature.mmc_set_part_config
        hits == {pos \in 0..(Len(da2) - Len(sig)) :
                    /\ find_pattern(da2, sig, pos) = <<pos>>
                    /\ Len(da2) >= pos + 22
                    /\ SubSeq(da2, pos + 21, pos + 22) = <<179, 33>>} IN
    IF hits # {} THEN <<CHOOSE i \in hits : \A j \in hits : i <= j>>
    ELSE find_pattern(da2, Signature.mmc_set_part_config_2, 0)

\* prepare_extensions: mmc_rpmb_send_command
find_mmc_rpmb_send_command(da2) ==
    LET first == find_pattern(da2, Signature.mmc_rpmb_send_command, 0) IN
    IF first # <<>> THEN first
    ELSE find_pattern(da2, Signature.mmc_rpmb_send_command_2, 0)

\* prepare_extensions: ptr_g_ufs_hba and g_ufs_hba, by the three
\* signatures in turn; the pointer is read where DA2 is long enough.
find_g_ufs_hba(da2) ==
    LET p1 == find_pattern(da2, Signature.ptr_g_ufs_hba, 0)
        p2 == find_pattern(da2, Signature.ptr_g_ufs_hba_2, 0)
        p3 == find_pattern(da2, Signature.ptr_g_ufs_hba_3, 0)
        at(ptr, d) == IF Len(da2) >= ptr + d + 4
                      THEN <<u32_from_le_bytes(SubSeq(da2, ptr + d + 1,
                                                      ptr + d + 4))>>
                      ELSE <<>> IN
    IF p1 # <<>> THEN [ptr |-> p1, g_ufs_hba |-> at(p1[1], 10)]
    ELSE IF p2 # <<>> THEN [ptr |-> p2, g_ufs_hba |-> at(p2[1], 8)]
    ELSE IF p3 # <<>> THEN [ptr |-> p3, g_ufs_hba |-> at(p3[1], 18)]
    ELSE [ptr |-> <<>>, g_ufs_hba |-> <<>>]

\* prepare_extensions: the address written for a routine, 0 when it was
\* not found.
routine_address(found, da2address) ==
    IF found = <<>> THEN 0 ELSE BitZeroSet(found[1] + da2address)

\* The address of ufshcd_get_free_tag if it were formed as the others are.
free_tag_address_at_match(found, da2address) ==
    routine_address(found, da2address)

\* prepare_extensions: the address written for ufshcd_get_free_tag
free_tag_address(found, da2address) ==
    IF found = <<>> THEN 0 ELSE BitZeroSet(found[1] + da2address - 1)

\* da_ext_data[p..p + 4].copy_from_slice(&value.to_le_bytes()), where the
\* slot was found
copy_from_slice(da_ext_data, p, value) ==
    IF p = <<>> THEN da_ext_data
    ELSE [i \in 1..Len(da_ext_data) |->
             IF p[1] < i /\ i <= p[1] + 4
             THEN to_le_bytes(value, 4)[i - p[1]]
             ELSE da_ext_data[i]]

\* prepare_extensions up to the patching: the routines found in DA2.
Do_prepare_extensions ==
    /\ pc = "prepare_extensions"
    /\ LET da2 == op.da2
           hba == find_g_ufs_hba(da2) IN
       loc' = [register_devctrl |->
                   find_pattern(da2, Signature.register_devctrl, 0),
               mmc_get_card |-> find_mmc_get_card(da2),
               mmc_set_part_config |-> find_mmc_set_part_config(da2),
               mmc_rpmb_send_command |-> find_mmc_rpmb_send_command(da2),
               g_ufs_hba |-> hba.g_ufs_hba,
               ufshcd_get_free_tag |->
                   IF hba.ptr # <<>>
                   THEN find_pattern(da2, Signature.ufshcd_get_free_tag, 0)
                   ELSE <<>>,
               ufshcd_queuecommand |->
                   IF hba.ptr # <<>>
                   THEN find_pattern(da2, Signature.ufshcd_queuecommand, 0)
                   ELSE <<>>]
    /\ pc' = "prepare_extensions.patch"
    /\ UNCHANGED <<op, stack, rv, io>>

\* prepare_extensions from "Actual patching starts here": the slots are
\* looked up in the blob and then filled.
Do_prepare_extensions_patch ==
    /\ pc = "prepare_extensions.patch"
    /\ LET ptr(k) == find_pattern(op.da_ext, Sentinel(k), 0)
           a == op.addr
           d1 == copy_from_slice(op.da_ext, ptr(1),
                     routine_address(loc.register_devctrl, a))
           d2 == copy_from_slice(d1, ptr(2),
                     routine_address(loc.mmc_get_card, a))
           d3 == copy_from_slice(d2, ptr(3),
                     routine_address(loc.mmc_set_part_config, a))
           d4 == copy_from_slice(d3, ptr(4),
                     routine_address(loc.mmc_rpmb_send_command, a))
           d5 == copy_from_slice(d4, ptr(6),
                     free_tag_address(loc.ufshcd_get_free_tag, a))
           d6 == copy_from_slice(d5, ptr(5),
                     routine_address(loc.ufshcd_queuecommand, a))
           d7 == copy_from_slice(d6, ptr(7),
                     IF loc.g_ufs_hba = <<>> THEN 0 ELSE loc.g_ufs_hba[1])
       IN IF ptr(1) # <<>> /\ ptr(2) # <<>>
          THEN Return(Ok(d7))
          ELSE Return(None)
    /\ UNCHANGED <<op, loc, io>>

(* The DA2 images given to prepare_extensions.                             *)

\* A piece of a DA2 image: its bytes, and where in it the signature that
\* prepare_extensions is to take stands (-1: none), with the number of
\* bytes the routine starts before the signature.
Piece(bytes, match, before) == [b |-> bytes, m |-> match, before |-> before]
NoPiece == Piece(<<>>, -1, 0)

RegisterPieces == {NoPiece, Piece(Signature.register_devctrl, 0, 0)}

CardPieces ==
    {NoPiece,
     Piece(<<16>> \o Signature.mmc_get_card, 1, 1),
     Piece(Signature.mmc_get_card, 0, 1),
     Piece(Zeros(10) \o Signature.mmc_get_card_2, 10, 10)}

ConfigPieces ==
    {NoPiece,
     Piece(Signature.mmc_set_part_config \o Zeros(14) \o <<179, 33>>, 0, 0),
     Piece(Signature.mmc_set_part_config \o Zeros(16), -1, 0),
     Piece(Signature.mmc_set_part_config \o Zeros(16)
               \o Signature.mmc_set_part_config_2, 22, 0),
     Piece(Signature.mmc_set_part_config \o Zeros(16)
               \o Signature.mmc_set_part_config \o Zeros(14) \o <<179, 33>>,
           22, 0),
     Piece(Signature.mmc_set_part_config_2, 0, 0)}

RpmbPieces ==
    {NoPiece,
     Piece(Signature.mmc_rpmb_send_command, 0, 0),
     Piece(Signature.mmc_rpmb_send_command_2, 0, 0),
     Piece(Signature.mmc_rpmb_send_command_2
               \o Signature.mmc_rpmb_send_command, 8, 0)}

FreeTagPieces == {NoPiece, Piece(<<112>> \o Signature.ufshcd_get_free_tag, 1, 0)}

QueuePieces == {NoPiece, Piece(Signature.ufshcd_queuecommand, 0, 0)}

\* The pointer literal 0x12345678 after each of the three signatures, the
\* first signature at the end of the image, and no signature.
HbaPieces ==
    {NoPiece,
     Piece(Signature.ptr_g_ufs_hba \o <<120, 86, 52, 18>>, 0, 0),
     Piece(Signature.ptr_g_ufs_hba_2 \o <<120, 86, 52, 18>>, 0, 0),
     Piece(Signature.ptr_g_ufs_hba_3 \o Zeros(8) \o <<120, 86, 52, 18>>, 0, 0),
     Piece(Signature.ptr_g_ufs_hba \o <<120, 86>>, 0, 0)}

\* The bytes before the first piece.
ExtPads == {<<>>, <<0>>}

\* The blobs: payloads/da_x.bin, and blobs without the slot of
\* mmc_set_part_config and without the slot of mmc_get_card.
ExtBlobs ==
    {DA_EXT,
     SubSeq(DA_EXT, 1, 12) \o SubSeq(DA_EXT, 17, Len(DA_EXT)),
     SubSeq(DA_EXT, 1, 8) \o SubSeq(DA_EXT, 13, Len(DA_EXT))}

\* The pieces of an image in their order, and the place of piece k.
PieceNames == <<"register_devctrl", "mmc_get_card", "mmc_set_part_config", "mmc_rpmb_send_command", "ufshcd_get_free_tag", "ufshcd_queuecommand", "g_ufs_hba">>
RECURSIVE PieceStart(_, _)
PieceStart(ps, k) ==
    IF k = 0 THEN 0 ELSE PieceStart(ps, k - 1) + Len(ps[k].b)

InitExts ==
    /\ \E pad \in ExtPads, reg \in RegisterPieces, card \in CardPieces,
          cfg \in ConfigPieces, rpmb \in RpmbPieces, tag \in FreeTagPieces,
          queue \in QueuePieces, hba \in HbaPieces, ext \in ExtBlobs :
         LET ps == <<Piece(pad, -1, 0), reg, card, cfg, rpmb, tag, queue,
                     hba>> IN
         /\ ext = DA_EXT \/ (cfg = NoPiece /\ rpmb = NoPiece)
         /\ op = [fn |-> "prepare_extensions",
                  da2 |-> Concat([k \in 1..8 |-> ps[k].b]),
                  addr |-> 1073741824,
                  da_ext |-> ext,
                  match |-> [k \in 1..7 |->
                                IF ps[k + 1].m < 0 THEN -1
                                ELSE PieceStart(ps, k) + ps[k + 1].m],
                  before |-> [k \in 1..7 |-> ps[k + 1].before],
                  g_ufs_hba |-> IF Len(hba.b) >= 12 THEN 305419896 ELSE 0]
    /\ pc = "prepare_extensions"
    /\ stack = <<>>
    /\ loc = <<>>
    /\ rv = NoRet
    /\ io = <<>>

NextExts == Do_prepare_extensions \/ Do_prepare_extensions_patch

SpecExts == InitExts /\ [][NextExts]_vars

(* Properties of the patched blob.                                         *)

\* prepare_extensions returned the blob payloads/da_x.bin, patched.
Patched == op.fn = "prepare_extensions" /\ pc = "done" /\ rv.ok /\ op.da_ext = DA_EXT

\* The word in slot k of the patched blob: the slots follow the first
\* four bytes.
SlotWord(k) == SubSeq(rv.val, 4 * k + 1, 4 * k + 4)

\* The routine of slot k counts as found: its signature is in DA2, and
\* for the two routines of the UFS driver the signature of ptr_g_ufs_hba
\* is there as well.
RoutineFound(k) == op.match[k] >= 0 /\ (k \in {5, 6} => op.match[7] >= 0)

\* The word for a routine that starts `before` bytes before its match,
\* not below 0: the address in device memory with bit 0 set, the least
\* significant byte first.
RoutineWord(k, before) ==
    LsbFirst(BitZeroSet(saturating_sub(op.match[k], before) + op.addr))

\* The slots of the six routines, in the blob's order: ufshcd_queuecommand
\* has the slot 0x55555555 and ufshcd_get_free_tag the slot 0x66666666.
SlotOf == [k \in 1..6 |-> IF k = 5 THEN 6 ELSE IF k = 6 THEN 5 ELSE k]

\* C35 as the specification states it: the word of every routine found
\* is (match + da2.addr) | 1, with match - 1 and match - 10 for the two
\* signatures of mmc_get_card, and 0 for a routine not found.
C35_SlotsAtMatch ==
    Patched =>
       \A k \in 1..6 :
          SlotWord(SlotOf[k]) =
             IF RoutineFound(k)
             THEN RoutineWord(k, IF k = 2 THEN op.before[k] ELSE 0)
             ELSE <<0, 0, 0, 0>>

\* C35: in the patched blob the word of every routine found is
\* (offset + da2.addr) | 1, the least significant byte first, where the
\* offset is the match of the signature, match - 1 (not below 0) and
\* match - 10 for the two signatures of mmc_get_card, and for
\* ufshcd_get_free_tag the word is (match + da2.addr - 1) | 1; the word of
\* a routine not found is 0.
C35_SlotsPatched ==
    Patched =>
       \A k \in 1..6 :
          SlotWord(SlotOf[k]) =
             IF ~RoutineFound(k) THEN <<0, 0, 0, 0>>
             ELSE IF k = 5
             THEN LsbFirst(BitZeroSet(op.match[k] + op.addr - 1))
             ELSE RoutineWord(k, IF k = 2 THEN op.before[k] ELSE 0)

\* The blob was patched for a DA2 in which ufshcd_get_free_tag matched at
\* an even place and mmc_get_card by its second signature.
C35_Witness ==
    /\ Patched
    /\ RoutineFound(5)
    /\ op.match[5] % 2 = 0
    /\ op.before[2] = 10
    /\ SlotWord(6) = LsbFirst(op.match[5] + op.addr - 1)

----------------------------------------------------------------------------
(* Properties of the offsets at which parse_gpt looks for the magic.       *)

\* The image holds the whole magic at one of the offsets 512, 4096,
\* 0x8000, 0x10000, 0x20000.
GptMagicHeld ==
    \/ op.hdr.magic = EfiPart
    \/ op.far \in {4096, 32768, 65536, 131072} /\ op.cut = 0

----------------------------------------------------------------------------
(* libusb_backend.rs: UsbMTKPort::read_exact.                              *)

\* The longest buffer read into, and the most bulk reads in a row that
\* return no byte.
MaxUsbBuf == 3
MaxEmptyReads == 2

\* What read_bulk may return for a buffer of to_read bytes: Ok(n) with the
\* n bytes received, n from 0 to to_read, or an error of rusb.
BulkBytes == {17, 34}
BulkResults(to_read) ==
    {[ok |-> TRUE, bytes |-> b, e |-> "none"] :
        b \in UNION {[1..n -> BulkBytes] : n \in 0..to_read}}
      \cup {[ok |-> FALSE, bytes |-> <<>>, e |-> e] : e \in {"Timeout", "Pipe"}}

\* The outcome of one turn of the loop of read_exact: whether the call
\* ends, its result if it does, and buf and total_read after the turn.
ReadTurn(end, result, buf, total_read) ==
    [end |-> end, rv |-> result, buf |-> buf, total_read |-> total_read]

\* One turn if a bulk read of no bytes ended the read.
read_exact_turn_eof(buf, total_read, result) ==
    IF ~result.ok
    THEN ReadTurn(TRUE, Err(IF result.e = "Timeout" THEN "TimedOut" ELSE "Other"), buf, total_read)
    ELSE LET n == Len(result.bytes) IN
         ReadTurn(n = 0, Ok(total_read),
                  [i \in 1..Len(buf) |->
                      IF total_read < i /\ i <= total_read + n
                      THEN result.bytes[i - total_read] ELSE buf[i]],
                  total_read + n)

\* UsbMTKPort::read_exact, one turn of its while loop on the result of
\* read_bulk.
read_exact_turn(buf, total_read, result) ==
    IF ~result.ok
    THEN ReadTurn(TRUE, Err(IF result.e = "Timeout" THEN "TimedOut" ELSE "Other"), buf, total_read)
    ELSE LET n == Len(result.bytes) IN
         IF n = 0 THEN ReadTurn(FALSE, NoRet, buf, total_read)
         ELSE ReadTurn(FALSE, NoRet,
                       [i \in 1..Len(buf) |->
                           IF total_read < i /\ i <= total_read + n
                           THEN result.bytes[i - total_read] ELSE buf[i]],
                       total_read + n)

\* UsbMTKPort::read_exact: a turn of the loop, while total_read <
\* buf.len().
UsbMTKPort_read_exact_turn ==
    /\ pc = "UsbMTKPort::read_exact"
    /\ loc.total_read < Len(loc.buf)
    /\ \E result \in BulkResults(Len(loc.buf) - loc.total_read) :
         LET t == read_exact_turn(loc.buf, loc.total_read, result)
             empty == result.ok /\ result.bytes = <<>> IN
         /\ empty => loc.empties < MaxEmptyReads
         /\ io' = Append(io, IF result.ok THEN Rd(result.bytes)
                             ELSE RdErr(IF result.e = "Timeout" THEN "TimedOut" ELSE "Other"))
         /\ loc' = [buf |-> t.buf, total_read |-> t.total_read,
                    empties |-> IF empty THEN loc.empties + 1 ELSE 0]
         /\ IF t.end THEN Return(t.rv) ELSE UNCHANGED <<pc, stack, rv>>
    /\ UNCHANGED op

\* UsbMTKPort::read_exact: Ok(total_read) after the loop.
UsbMTKPort_read_exact_end ==
    /\ pc = "UsbMTKPort::read_exact"
    /\ loc.total_read >= Len(loc.buf)
    /\ Return(Ok(loc.total_read))
    /\ UNCHANGED <<op, loc, io>>

InitUsbRead ==
    /\ op \in {[fn |-> "UsbMTKPort::read_exact", len |-> n] : n \in 0..MaxUsbBuf}
    /\ pc = "UsbMTKPort::read_exact"
    /\ stack = <<>>
    /\ loc = [buf |-> Zeros(op.len), total_read |-> 0, empties |-> 0]
    /\ rv = NoRet
    /\ io = <<>>

NextUsbRead == UsbMTKPort_read_exact_turn \/ UsbMTKPort_read_exact_end

SpecUsbRead == InitUsbRead /\ [][NextUsbRead]_vars

(* Properties of UsbMTKPort::read_exact.                                   *)

\* The bytes the bulk reads received, in the order they arrived.
Arrived == Concat([i \in 1..Len(io) |-> io[i].b])

\* The last bulk read.
LastBulk == io[Len(io)]

\* C37: read_exact returns Ok(n) only with n = buf.len() and buf holding
\* the bytes received in the order they arrived; a bulk read of no bytes
\* leaves the call in its loop with nothing returned; a bulk read that
\* times out ends the call with an error of kind TimedOut, and the call
\* returns an error only after a bulk read that failed.
C37_UsbReadExact ==
    op.fn = "UsbMTKPort::read_exact" =>
       /\ (pc = "done" /\ rv.ok) =>
             /\ rv.val = op.len
             /\ Len(loc.buf) = op.len
             /\ loc.buf = Arrived
       /\ (io # <<>> /\ LastBulk = Rd(<<>>)) =>
             pc = "UsbMTKPort::read_exact" /\ rv = NoRet
       /\ (io # <<>> /\ LastBulk = RdErr("TimedOut")) =>
             pc = "done" /\ ~rv.ok /\ rv.kind = "TimedOut"
       /\ (pc = "done" /\ ~rv.ok) => (io # <<>> /\ LastBulk.k = "e")

\* read_exact filled a buffer of three bytes from a bulk read of one byte,
\* one of no bytes and one of two bytes.
C37_Witness ==
    /\ op.fn = "UsbMTKPort::read_exact"
    /\ pc = "done"
    /\ rv.ok
    /\ rv.val = 3
    /\ io = <<Rd(<<17>>), Rd(<<>>), Rd(<<34, 17>>)>>
    /\ loc.buf = <<17, 34, 17>>

----------------------------------------------------------------------------
(* A session: two operations on one Device, one after the other.          *)

\* The operations of a session.
SessionCalls ==
    {c \in DeviceCalls :
        \/ c.fn = "read_partition" /\ c.name = Name.boot
        \/ c.fn = "write_partition" /\ c.name = Name.seccfg
              /\ Len(c.data) = MaxExcess
        \/ c.fn = "set_seccfg_lock_state" /\ c.lock_state = "Lock"}

\* How often upload_da was called in the operation that is running.
UploadsNow == Len(SelectSeq(loc.calls, LAMBDA f : f = "upload_da"))

\* The operation c begins on the Device l: its locals are fresh, and it
\* is noted what the connection type is, how often upload_da was called
\* before and whether enter_da_mode had completed.
SessionCall(c, l, later, uploads, entered) ==
    /\ op' = [fn |-> c.fn, name |-> c.name, data |-> c.data,
              lock_state |-> c.lock_state,
              da |-> [regions |-> <<DAEntryRegion(0, 0, <<>>, 0),
                                    DA1Region, DA2Region>>],
              addr |-> 0, size |-> 0, later |-> later,
              at_call |-> l.connection_type, uploads |-> uploads,
              entered |-> entered, seccfg |-> op.seccfg]
    /\ loc' = [connected |-> l.connected, protocol |-> l.protocol,
               connection_type |-> l.connection_type,
               partitions |-> l.partitions, storage |-> l.storage,
               using_exts |-> l.using_exts, calls |-> <<>>,
               da1 |-> DA1Region, addr |-> 0, data |-> <<>>,
               status |-> <<>>, buffer |-> <<>>, bytes_read |-> 0,
               pos |-> 0, seccfg_raw |-> <<>>, seccfg |-> SecCfgV4_new,
               lock_flag |-> c.lock_state, new_seccfg |-> <<>>,
               parse |-> <<>>, sej |-> <<>>, refusals |-> 0,
               transforms |-> <<>>, dev_info |-> FALSE]
    /\ pc' = c.fn
    /\ stack' = <<>>
    /\ rv' = NoRet
    /\ io' = <<>>

\* The first operation returned (no panic): the second one begins.
Do_session_next ==
    /\ pc = "done"
    /\ rv.kind # "panic"
    /\ ~op.later
    /\ \E c \in SessionCalls :
         SessionCall(c, loc, TRUE, UploadsNow,
                     "upload_da" \in Called /\ loc.storage = "Emmc")

InitSession ==
    /\ \E c \in SessionCalls, d \in Devices :
         /\ d.connection_type # "Da" \/ d.partitions # <<>>
         /\ op = [fn |-> c.fn, name |-> c.name, data |-> c.data,
                  lock_state |-> c.lock_state,
                  da |-> [regions |-> <<DAEntryRegion(0, 0, <<>>, 0),
                                        DA1Region, DA2Region>>],
                  addr |-> 0, size |-> 0, later |-> FALSE,
                  at_call |-> d.connection_type, uploads |-> 0,
                  entered |-> FALSE,
                  seccfg |-> SealedBlob(SecCfgV4(4, 60, 1, 1, 0, <<"HW">>))]
         /\ loc = [connected |-> d.connected, protocol |-> d.protocol,
                   connection_type |-> d.connection_type,
                   partitions |-> d.partitions, storage |-> d.storage,
                   using_exts |-> d.using_exts, calls |-> <<>>,
                   da1 |-> DA1Region, addr |-> 0, data |-> <<>>,
                   status |-> <<>>, buffer |-> <<>>, bytes_read |-> 0,
                   pos |-> 0, seccfg_raw |-> <<>>, seccfg |-> SecCfgV4_new,
                   lock_flag |-> c.lock_state, new_seccfg |-> <<>>,
                   parse |-> <<>>, sej |-> <<>>, refusals |-> 0,
                   transforms |-> <<>>, dev_info |-> FALSE]
    /\ pc = op.fn
    /\ stack = <<>>
    /\ rv = NoRet
    /\ io = <<>>

NextSession == NextDevice \/ Do_session_next

SpecSession == InitSession /\ [][NextSession]_vars

----------------------------------------------------------------------------
(* Properties of a session.                                                *)

\* One of the three operations is running on a Device with a DA protocol.
EntryPointRuns ==
    /\ op.fn \in {"read_partition", "write_partition", "set_seccfg_lock_state"}
    /\ loc.protocol

\* C38 as the specification states it, for the whole session: upload_da
\* runs at most once.
C38_OneUploadPerSession == op.uploads + UploadsNow <= 1

\* C38: read_partition, write_partition and set_seccfg_lock_state run
\* enter_da_mode when the connection type is not Da at the call and never
\* when it is Da; once enter_da_mode has completed the connection type is
\* Da, and no later operation of the session calls upload_da; in one
\* operation upload_da is called at most once.
C38_EnterWhenNotDa ==
    EntryPointRuns =>
       /\ op.at_call = "Da" =>
             pc # "enter_da_mode" /\ UploadsNow = 0
       /\ (op.at_call # "Da" /\ pc # op.fn) =>
             pc = "enter_da_mode" \/ UploadsNow = 1
       /\ UploadsNow <= 1
       /\ ("upload_da" \in Called /\ loc.storage = "Emmc") =>
             loc.connection_type = "Da"
       /\ op.entered => (op.at_call = "Da" /\ UploadsNow = 0)

\* The second operation of a session ran to its end on a Device the first
\* one had brought into DA mode, and the session has one upload.
C38_Witness ==
    /\ EntryPointRuns
    /\ op.later
    /\ op.entered
    /\ op.uploads = 1
    /\ pc = "done"
    /\ rv.ok

----------------------------------------------------------------------------
(* Properties of the connection type after enter_da_mode.                  *)

\* The first entry point of a session on a device in preloader mode has
\* returned.
FirstCallReturned ==
    /\ EntryPointRuns
    /\ ~op.later
    /\ op.at_call = "Preloader"
    /\ pc = "done"
    /\ rv.kind # "panic"

\* C39: the connection type is Da only if enter_da_mode completed: when the
\* first entry point of a session has returned with the connection type Da,
\* the partition table was read and parsed and DeviceInfo holds the storage
\* and the partitions; when enter_da_mode failed the connection type and
\* DeviceInfo are as they were.
C39_DaOnlyAfterGpt ==
    FirstCallReturned =>
       /\ loc.connection_type = "Da" =>
             loc.storage = "Emmc" /\ loc.partitions # <<>>
       /\ loc.storage # "Emmc" =>
             loc.connection_type = "Preloader" /\ loc.partitions = <<>>

\* enter_da_mode uploaded the DA and failed on the partition table: the
\* next read_partition of the session finds the connection type Da, does
\* not enter DA mode, and finds no partition.
C39_Witness ==
    /\ op.fn = "read_partition"
    /\ op.later
    /\ op.at_call = "Da"
    /\ op.uploads = 1
    /\ ~op.entered
    /\ loc.partitions = <<>>
    /\ pc = "done"
    /\ rv.kind = "NotFound"
    /\ io = <<>>

----------------------------------------------------------------------------
(* Properties of a seccfg record whose sealed hash nothing matches.        *)

\* The sealed hash of the record is the reference hash neither in plain
\* form nor after SW, HW, HWv3 or HWv4, whatever the SEJ block delivers.
NothingMatches(h) ==
    /\ h.hash # h.calculated_hash
    /\ sej_seccfg_sw(h.hash, FALSE) # h.calculated_hash
    /\ \A a \in {"HW", "HWv3", "HWv4"} : \A v \in SejDelivered :
          sej_seccfg_hw(a, h.hash, FALSE, v) # h.calculated_hash

\* set_seccfg_lock_state has read a record of the partition seccfg whose
\* sealed hash nothing matches.
UnmatchedRead ==
    /\ op.fn = "set_seccfg_lock_state"
    /\ rv.kind # "panic"
    /\ "parse" \in Called
    /\ \E h \in {parse_header(loc.seccfg_raw, Len(loc.seccfg_raw))} :
          h.ok /\ NothingMatches(h.val)

\* C40: when the sealed hash matches the reference neither in plain form
\* nor after any of SW, HW, HWv3, HWv4, parse has run the four transforms
\* and returns Ok with no algorithm latched; create runs no transform and
\* puts the SHA-256 of the header of the record with the requested lock
\* states after that header; set_seccfg_lock_state writes that blob to the
\* partition seccfg and returns it if the write succeeded.
C40_UnmatchedWritten ==
    UnmatchedRead =>
       LET h == parse_header(loc.seccfg_raw, Len(loc.seccfg_raw)).val
           cfg == create_lock(h.cfg, op.lock_state) IN
       /\ pc = "set_seccfg_lock_state.create" =>
             /\ rv = Ok(h.cfg)
             /\ rv.val.algo = <<>>
             /\ loc.transforms = TriedInOrder
       /\ "create" \in Called =>
             /\ Decrypted = TriedInOrder
             /\ Sealings = <<>>
       /\ pc = "set_seccfg_lock_state.write" =>
             /\ rv.ok
             /\ SubSeq(rv.val, 1, 28) = seccfg_header(cfg)
             /\ SubSeq(rv.val, 29, 60) = Sha256(seccfg_header(cfg))
       /\ "write_partition" \in Called =>
             /\ op.name = Name.seccfg
             /\ SubSeq(op.data, 1, 28) = seccfg_header(cfg)
             /\ SubSeq(op.data, 29, 60) = Sha256(SubSeq(op.data, 1, 28))
       /\ (pc = "done" /\ LastEvents(Len(WriteExchange)) = WriteExchange) =>
             rv = Ok(op.data)

\* set_seccfg_lock_state wrote the blob of a record nothing matched, with
\* the plain hash, and returned it.
C40_Witness ==
    /\ UnmatchedRead
    /\ pc = "done"
    /\ rv.ok
    /\ loc.calls = SetSeccfgCalls
    /\ loc.transforms = TriedInOrder
    /\ SubSeq(rv.val, 29, 60) = Sha256(SubSeq(rv.val, 1, 28))
    /\ CommandsSent(Cmd.WriteData) # {}

====
